---- MODULE Spec2Model ----
(***************************************************************************)
(* The dual-mode project/task store of seo-compass (src/stores/seoStore.ts) *)
(* as a state machine: one mounted useSEOStore() instance, the browser's    *)
(* localStorage entry it writes in guest mode, the three remote relations   *)
(* (seo_projects, seo_tasks, task_history) it writes in cloud mode, and the *)
(* asynchronous calls that are suspended at an await.                       *)
(***************************************************************************)
EXTENDS Integers, Sequences, FiniteSets, TLC

\* ------------------------------------------------------------------ bounds
\* instants the clock can reach; every reading of the clock and every drawing of an
\* identifier is a later instant, so this bounds the rows that are ever created
MaxClock == 5
\* requests that fail on their way (a request refused by the database is not counted)
MaxFailures == 1
\* store operations suspended at an await at the same time
MaxCalls == 1
\* the tasks a scored project has at most: done ones of high impact, other ones of high
\* impact, and ones of each other impact, done or not
MaxDoneHigh == 7
MaxOpenHigh == 5
MaxOfEach == 1
\* loadCloud() calls of the identity effect suspended at an await at the same time
MaxLoads == 1
\* number of entries of the task template catalog
CatalogSize == 2

\* ------------------------------------------------------------------ values
NoUser == "none"
Users == {"u1"}
Null == "null"
Statuses == {"not-started", "in-progress", "done", "skipped"}

EmptyStore == [projects |-> <<>>, tasks |-> <<>>, history |-> <<>>]

TemplatePool ==
  << [category |-> "technical", title |-> "Set up robots.txt",
      description |-> "d1", whyItMatters |-> "w1",
      executionSteps |-> <<"s1a", "s1b">>, toolsRequired |-> <<"Search Console">>,
      expectedImpact |-> "high", priority |-> "critical"],
     [category |-> "on-page", title |-> "Optimize title tags",
      description |-> "d2", whyItMatters |-> "w2",
      executionSteps |-> <<"s2a">>, toolsRequired |-> <<"Screaming Frog">>,
      expectedImpact |-> "medium", priority |-> "high"],
     [category |-> "content", title |-> "Audit thin content",
      description |-> "d3", whyItMatters |-> "w3",
      executionSteps |-> <<"s3a">>, toolsRequired |-> <<>>,
      expectedImpact |-> "low", priority |-> "medium"],
     [category |-> "tracking", title |-> "Install analytics",
      description |-> "d4", whyItMatters |-> "w4",
      executionSteps |-> <<"s4a", "s4b">>, toolsRequired |-> <<"GA4">>,
      expectedImpact |-> "high", priority |-> "low"] >>

SEO_TASK_TEMPLATES == SubSeq(TemplatePool, 1, CatalogSize)

\* ------------------------------------------------------------------ state
VARIABLES
  user,         \* useAuth().user: NoUser or the signed-in user's id (also the session of the client)
  data,         \* useState<StoreData>: the in-memory snapshot
  loading,      \* useState(loading)
  prevUserRef,  \* useRef(user?.id)
  local,        \* localStorage entry LOCAL_KEY
  remote,       \* rows of seo_projects, seo_tasks, task_history and the objects of the bucket
  calls,        \* asynchronous calls suspended at an await
  now,          \* the clock: the last instant read
  failures,     \* requests that failed on their way so far
  last          \* the step taken last: what ran, with which arguments, what it returned

vars == <<user, data, loading, prevUserRef, local, remote, calls, now, failures, last>>

\* ------------------------------------------------------------------ helpers
Range(s) == {s[i] : i \in 1..Len(s)}

RECURSIVE Filter(_, _)
\* s.filter(x => x \in keep): the elements of s that are in keep, in order
Filter(s, keep) ==
  IF s = <<>> THEN <<>>
  ELSE (IF Head(s) \in keep THEN <<Head(s)>> ELSE <<>>) \o Filter(Tail(s), keep)

\* Date.now().toString(36) + Math.random()...: a string no other instant yields
generateId(t) == ToString(t)

\* gen_random_uuid(), drawn at instant t
gen_random_uuid(t) == ToString(t)

toISOString(t) == "T" \o ToString(t)

\* object spread { ...t, ...u }: u's fields over t's
Spread(t, u) ==
  [f \in DOMAIN t \cup DOMAIN u |-> IF f \in DOMAIN u THEN u[f] ELSE t[f]]

\* data.tasks.find(t => t.id === taskId): the set holding the first match, or {}
Find(tasks, taskId) ==
  LET hits == {i \in 1..Len(tasks) : tasks[i].id = taskId}
  IN IF hits = {} THEN {}
     ELSE {tasks[CHOOSE i \in hits : \A j \in hits : i <= j]}

\* ------------------------------------------------------------------ local persistence
JSONstringify(d) == [kind |-> "json", value |-> d]

loadLocal(entry) ==
  IF entry.kind = "json" THEN entry.value ELSE EmptyStore

saveLocal(d) == JSONstringify(d)

\* ------------------------------------------------------------------ remote relations
\* The rows a request made under session s can see or touch (row level security:
\* USING (auth.uid() = user_id)); without a session auth.uid() is NULL and no row qualifies.
Visible(rows, s) == {r \in rows : r.user_id = s}

RECURSIVE SortedAsc(_, _)
\* ORDER BY key ASC: every order of the rows in which the keys ascend; rows with the
\* same key come in any order
SortedAsc(rows, key) ==
  IF rows = {} THEN {<<>>}
  ELSE LET least == {r \in rows : \A q \in rows : r[key] <= q[key]}
       IN UNION {{<<r>> \o rest : rest \in SortedAsc(rows \ {r}, key)} : r \in least}

Reverse(s) == [i \in 1..Len(s) |-> s[Len(s) + 1 - i]]

\* ORDER BY key DESC
SortedDesc(rows, key) == {Reverse(s) : s \in SortedAsc(rows, key)}

\* INSERT INTO seo_projects: id and created_at are column defaults
ProjectRow(values, id, t) ==
  Spread([id |-> id, client_name |-> "", industry |-> "", created_at |-> t], values)

\* INSERT INTO seo_tasks: id, completion_date, created_at and attachments are column defaults
TaskRow(values, id, t) ==
  Spread([id |-> id, description |-> "", why_it_matters |-> "",
          execution_steps |-> <<>>, tools_required |-> <<>>,
          expected_impact |-> "medium", priority |-> "medium",
          status |-> "not-started", completion_date |-> Null, notes |-> "",
          proof_url |-> "", time_spent_minutes |-> 0, created_at |-> t,
          attachments |-> <<>>], values)

\* INSERT INTO task_history: id and change_date are column defaults
HistoryRow(values, id, t) ==
  Spread([id |-> id, changed_by |-> "Admin", change_date |-> t, notes |-> ""], values)

\* DELETE FROM seo_projects WHERE id = projectId under session s, with the cascades of
\* seo_tasks.project_id and task_history.task_id
DeleteProjectRows(r, s, projectId) ==
  LET gone == {p \in Visible(r.projects, s) : p.id = projectId}
      goneIds == {p.id : p \in gone}
      goneTasks == {t \in r.tasks : t.project_id \in goneIds}
      goneTaskIds == {t.id : t \in goneTasks}
  IN [r EXCEPT !.projects = @ \ gone,
               !.tasks = @ \ goneTasks,
               !.history = {h \in @ : h.task_id \notin goneTaskIds}]

\* UPDATE seo_tasks SET dbUpdates WHERE id = taskId under session s
UpdateTaskRows(r, s, taskId, dbUpdates) ==
  [r EXCEPT !.tasks =
     {IF t.id = taskId /\ t.user_id = s THEN Spread(t, dbUpdates) ELSE t : t \in @}]

\* ------------------------------------------------------------------ loadCloud
ProjectOfRow(p) ==
  [id |-> p.id, name |-> p.name, domain |-> p.domain, startDate |-> p.start_date,
   clientName |-> p.client_name, industry |-> p.industry, createdAt |-> p.created_at]

TaskOfRow(t) ==
  [id |-> t.id, projectId |-> t.project_id, category |-> t.category,
   title |-> t.title, description |-> t.description, whyItMatters |-> t.why_it_matters,
   executionSteps |-> t.execution_steps, toolsRequired |-> t.tools_required,
   expectedImpact |-> t.expected_impact, priority |-> t.priority, status |-> t.status,
   completionDate |-> t.completion_date, notes |-> t.notes, proofUrl |-> t.proof_url,
   timeSpentMinutes |-> t.time_spent_minutes, createdAt |-> t.created_at,
   attachments |-> t.attachments]

HistoryOfRow(h) ==
  [id |-> h.id, taskId |-> h.task_id, taskTitle |-> h.task_title,
   category |-> h.category, oldStatus |-> h.old_status, newStatus |-> h.new_status,
   changedBy |-> h.changed_by, changeDate |-> h.change_date, notes |-> h.notes]

MapSeq(s, Op(_)) == [i \in 1..Len(s) |-> Op(s[i])]

\* What the three selects of loadCloud can resolve to under session s: a select in
\* failed resolves with data = null, which (res.data || []) turns into [].
FetchResults(r, s, failed) ==
  {[projects |-> MapSeq(ps, ProjectOfRow), tasks |-> MapSeq(ts, TaskOfRow),
    history |-> MapSeq(hs, HistoryOfRow)] :
     ps \in (IF "projects" \in failed THEN {<<>>}
             ELSE SortedDesc(Visible(r.projects, s), "created_at")),
     ts \in (IF "tasks" \in failed THEN {<<>>}
             ELSE SortedAsc(Visible(r.tasks, s), "created_at")),
     hs \in (IF "history" \in failed THEN {<<>>}
             ELSE SortedDesc(Visible(r.history, s), "change_date"))}

\* the ways the awaited Promise.all of loadCloud can end: it resolves with the selects
\* in failed failed, or (thrown) it rejects
FetchOutcomes ==
  {[thrown |-> FALSE, failed |-> f] : f \in SUBSET {"projects", "tasks", "history"}}
    \cup {[thrown |-> TRUE, failed |-> {"all"}]}

\* a request answered as ok is one more failure when ok is FALSE
Budget(ok) == ok \/ failures < MaxFailures
Spend(ok) == failures' = IF ok THEN failures ELSE failures + 1

\* ------------------------------------------------------------------ suspended calls
Pending(ops) == Cardinality({i \in 1..Len(calls) : calls[i].op \in ops})

StoreOps ==
  {"createProject", "updateTask", "uploadAttachment", "deleteAttachment", "deleteProject"}

\* room for one more store operation, or for one more loadCloud() of the effect
CanCall == Pending(StoreOps) < MaxCalls
CanLoad == Pending({"loadCloud"}) < MaxLoads

Put(c, i) == IF i = 0 THEN Append(calls, c) ELSE [calls EXCEPT ![i] = c]

Drop(i) ==
  IF i = 0 THEN calls
  ELSE [j \in 1..(Len(calls) - 1) |-> IF j < i THEN calls[j] ELSE calls[j + 1]]

\* what is remembered of a step: the operation, the place it was at, what it returned
\* ("pending" while it is suspended), whether the call was a clean one so far (every
\* request answered without an error under the caller's session, no other store
\* operation overlapping it), and (for the synchronous operations) its arguments
Did(op, step, ret, args) ==
  [op |-> op, step |-> step, ret |-> ret, clean |-> TRUE, args |-> args]

Event(c, ret) == [Did(c.op, c.pc, ret, <<>>) EXCEPT !.clean = c.clean]

\* the call after one of its requests was answered: good when the answer carries no
\* error and the request found the rows it was made for under the caller's session
Answered(c, good) == [c EXCEPT !.clean = @ /\ good]

\* the call reaches its next await
Suspend(c, i, next) ==
  /\ calls' = Put(Spread(c, next), i)
  /\ last' = Event(c, "pending")

\* the call returns ret to its caller
Return(c, i, ret) ==
  /\ calls' = Drop(i)
  /\ last' = Event(c, ret)

\* what a store operation returns once its trailing loadCloud() has resolved
ResultOf(c) ==
  CASE c.op = "createProject" -> c.newProject.id
    [] c.op = "uploadAttachment" -> c.url.body
    [] OTHER -> "void"

\* loadCloud up to its await: the three selects are answered under the session of the
\* moment (lines 42-46)
DoFetch(c, i, out) ==
  /\ c.pc = "fetch"
  /\ failures + Cardinality(out.failed) <= MaxFailures
  /\ failures' = failures + Cardinality(out.failed)
  /\ \E v \in FetchResults(remote, user, out.failed) :
       Suspend(Answered(c, out.failed = {} /\ user = c.user), i,
               [pc |-> "apply", thrown |-> out.thrown, fetched |-> v])
  /\ UNCHANGED <<user, data, loading, prevUserRef, local, remote, now>>

\* DoApply without the finally of lines 73-75 when the fetch rejected
ApplyWithoutFinally(c, i) ==
  /\ c.pc = "apply"
  /\ data' = IF c.thrown THEN data ELSE c.fetched
  /\ loading' = IF c.thrown THEN loading ELSE FALSE
  /\ Return(c, i, ResultOf(c))
  /\ UNCHANGED <<user, prevUserRef, local, remote, now, failures>>

\* loadCloud after its await (lines 48-75), and the return of the operation awaiting it
DoApply(c, i) ==
  /\ c.pc = "apply"
  /\ data' = IF c.thrown THEN data ELSE c.fetched
  /\ loading' = FALSE
  /\ Return(c, i, ResultOf(c))
  /\ UNCHANGED <<user, prevUserRef, local, remote, now, failures>>

\* ------------------------------------------------------------------ identity
Undefined == "undefined"

\* UserChanged without the setLoading(true) of line 82
UserChangedQuietly(u) ==
  /\ u # user
  /\ user' = u
  /\ IF u # NoUser /\ u # prevUserRef
       THEN /\ CanLoad
            /\ prevUserRef' = u
            /\ calls' = Append(calls, [op |-> "loadCloud", pc |-> "fetch", user |-> u,
                                       clean |-> TRUE])
            /\ UNCHANGED <<data, loading>>
       ELSE /\ u = NoUser
            /\ prevUserRef' = Undefined
            /\ data' = loadLocal(local)
            /\ loading' = FALSE
            /\ UNCHANGED calls
  /\ last' = Did("userChanged", "effect", "void", <<>>)
  /\ now < MaxClock
  /\ now' = now + 1
  /\ UNCHANGED <<local, remote, failures>>

\* useEffect(..., [user, loadCloud]) (lines 79-89) after the identity became u
UserChanged(u) ==
  /\ u # user
  /\ user' = u
  /\ IF u # NoUser /\ u # prevUserRef
       THEN /\ CanLoad
            /\ prevUserRef' = u
            /\ loading' = TRUE
            /\ calls' = Append(calls, [op |-> "loadCloud", pc |-> "fetch", user |-> u,
                                       clean |-> TRUE])
            /\ UNCHANGED data
       ELSE /\ u = NoUser
            /\ prevUserRef' = Undefined
            /\ data' = loadLocal(local)
            /\ loading' = FALSE
            /\ UNCHANGED calls
  /\ last' = Did("userChanged", "effect", "void", <<>>)
  /\ now < MaxClock
  /\ now' = now + 1
  /\ UNCHANGED <<local, remote, failures>>

\* useEffect(..., [user, loadCloud]) (lines 79-89) after the auth context handed out a
\* new user object for the account that is signed in already (a refreshed session)
UserRefreshed ==
  /\ user # NoUser
  /\ IF user # prevUserRef
       THEN /\ CanLoad
            /\ prevUserRef' = user
            /\ loading' = TRUE
            /\ calls' = Append(calls, [op |-> "loadCloud", pc |-> "fetch", user |-> user,
                                       clean |-> TRUE])
       ELSE UNCHANGED <<prevUserRef, loading, calls>>
  /\ last' = Did("userChanged", "refresh", "void", <<>>)
  /\ now < MaxClock
  /\ now' = now + 1
  /\ UNCHANGED <<user, data, local, remote, failures>>

\* ------------------------------------------------------------------ updateLocal
\* updateLocal saving the snapshot that the updater was given, not the one it made
SaveBeforeUpdate(next) ==
  /\ data' = next
  /\ local' = saveLocal(data)

\* setData(prev => { const next = updater(prev); saveLocal(next); return next; })
UpdateLocal(next) ==
  /\ data' = next
  /\ local' = saveLocal(next)

GuestEvent(op, ret, args) == Did(op, "guest", ret, args)

\* a store operation is called in cloud mode and runs to its first await; a call that
\* overlaps another store operation is not a clean one, and neither is the other
Call(c) ==
  /\ user # NoUser
  /\ CanCall
  /\ calls' = Append([j \in 1..Len(calls) |->
                        Answered(calls[j], calls[j].op \notin StoreOps)],
                     Spread(c, [user |-> user, clean |-> Pending(StoreOps) = 0]))
  /\ last' = Did(c.op, "call", "pending", <<>>)
  /\ UNCHANGED <<user, data, loading, prevUserRef, local, remote, now, failures>>

\* ------------------------------------------------------------------ createProject
ProjectInputs ==
  {[name |-> "Acme", domain |-> "acme.test", startDate |-> "2024-01-01",
    clientName |-> "Acme Ltd", industry |-> "retail"]}

\* lines 110-117: one task per template
NewTask(t, id, projectId, createdAt) ==
  [id |-> id, projectId |-> projectId, category |-> t.category, title |-> t.title,
   description |-> t.description, whyItMatters |-> t.whyItMatters,
   executionSteps |-> t.executionSteps, toolsRequired |-> t.toolsRequired,
   expectedImpact |-> t.expectedImpact, priority |-> t.priority,
   status |-> "not-started", notes |-> "", proofUrl |-> "",
   timeSpentMinutes |-> 0, createdAt |-> createdAt, attachments |-> <<>>]

\* NewTaskRow with the title of every row taken from the first template
FirstTitleRow(t, userId, projectId) ==
  [user_id |-> userId, project_id |-> projectId, category |-> t.category,
   title |-> SEO_TASK_TEMPLATES[1].title, description |-> t.description,
   why_it_matters |-> t.whyItMatters, execution_steps |-> t.executionSteps,
   tools_required |-> t.toolsRequired, expected_impact |-> t.expectedImpact,
   priority |-> t.priority, status |-> "not-started", notes |-> "", proof_url |-> "",
   time_spent_minutes |-> 0]

\* lines 128-133: one row per template
NewTaskRow(t, userId, projectId) ==
  [user_id |-> userId, project_id |-> projectId, category |-> t.category,
   title |-> t.title, description |-> t.description, why_it_matters |-> t.whyItMatters,
   execution_steps |-> t.executionSteps, tools_required |-> t.toolsRequired,
   expected_impact |-> t.expectedImpact, priority |-> t.priority,
   status |-> "not-started", notes |-> "", proof_url |-> "", time_spent_minutes |-> 0]

\* lines 108-118: the snapshot with the new project and its tasks
WithNewProject(d, project, t) ==
  LET id == generateId(t)
      newProject == Spread(project, [id |-> id, createdAt |-> t])
      tasks == [k \in 1..Len(SEO_TASK_TEMPLATES) |->
                  NewTask(SEO_TASK_TEMPLATES[k], generateId(t + k), id, t)]
  IN [d EXCEPT !.projects = Append(@, newProject), !.tasks = @ \o tasks]

\* createProject in guest mode (lines 107-120)
GuestCreateProject(project) ==
  /\ user = NoUser
  /\ now + 1 + Len(SEO_TASK_TEMPLATES) <= MaxClock
  /\ UpdateLocal(WithNewProject(data, project, now + 1))
  /\ last' = GuestEvent("createProject", generateId(now + 1), <<project>>)
  /\ now' = now + 1 + Len(SEO_TASK_TEMPLATES)
  /\ UNCHANGED <<user, loading, prevUserRef, remote, calls, failures>>

\* AfterInsertProject without the check of line 126
GoOnAfterInsertProject(c, i, failed, row) ==
  Suspend(c, i, [pc |-> "insertTasks", newProject |-> row])

\* what createProject does with the answer to its project insert (line 126)
AfterInsertProject(c, i, failed, row) ==
  IF failed THEN Return(c, i, "")
  ELSE Suspend(c, i, [pc |-> "insertTasks", newProject |-> row])

\* createProject in cloud mode from its first await to its second (lines 122-134): the
\* insert into seo_projects is answered
DoInsertProject(c, i, ok) ==
  LET values == [user_id |-> c.user, name |-> c.project.name, domain |-> c.project.domain,
                 start_date |-> c.project.startDate, client_name |-> c.project.clientName,
                 industry |-> c.project.industry]
      row == ProjectRow(values, gen_random_uuid(now + 1), now + 1)
      \* WITH CHECK (auth.uid() = user_id)
      accepted == ok /\ user = c.user
  IN /\ c.pc = "insertProject"
     /\ Budget(ok)
     /\ Spend(ok)
     /\ IF accepted
          THEN /\ now < MaxClock
               /\ remote' = [remote EXCEPT !.projects = @ \cup {row}]
               /\ now' = now + 1
          ELSE UNCHANGED <<remote, now>>
     /\ AfterInsertProject(Answered(c, accepted), i, ~accepted, row)
     /\ UNCHANGED <<user, data, loading, prevUserRef, local>>

\* createProject in cloud mode from its second await to its third (lines 134-135): the
\* bulk insert into seo_tasks is answered, and the answer is not looked at
DoInsertTasks(c, i, ok) ==
  LET n == Len(SEO_TASK_TEMPLATES)
      rows == {TaskRow(NewTaskRow(SEO_TASK_TEMPLATES[k], c.user, c.newProject.id),
                       gen_random_uuid(now + k), now + 1) : k \in 1..n}
      \* WITH CHECK (auth.uid() = user_id), and project_id REFERENCES seo_projects(id)
      accepted == /\ ok
                  /\ user = c.user
                  /\ \E p \in remote.projects : p.id = c.newProject.id
  IN /\ c.pc = "insertTasks"
     /\ Budget(ok)
     /\ Spend(ok)
     /\ IF accepted
          THEN /\ now + n <= MaxClock
               /\ remote' = [remote EXCEPT !.tasks = @ \cup rows]
               /\ now' = now + n
          ELSE UNCHANGED <<remote, now>>
     /\ Suspend(Answered(c, accepted), i, [pc |-> "fetch"])
     /\ UNCHANGED <<user, data, loading, prevUserRef, local>>

\* createProject is called in cloud mode
CallCreateProject(project) ==
  Call([op |-> "createProject", pc |-> "insertProject", project |-> project])

\* ------------------------------------------------------------------ updateTask
\* !!x for an optional string field of a partial task
Truthy(u, f) == f \in DOMAIN u /\ u[f] \notin {"", Null}

\* StatusChanges without the comparison with the task's status
StatusGiven(task, updates) == "status" \in DOMAIN updates

\* updates.status && updates.status !== task.status (lines 147, 160)
StatusChanges(task, updates) ==
  "status" \in DOMAIN updates /\ updates.status # task.status

\* Stamped without the stamp
NotStamped(task, updates, t) == updates

\* updates.completionDate = new Date().toISOString() when the status becomes done and
\* no completion date came with the update (lines 153, 165)
Stamped(task, updates, t) ==
  IF /\ StatusChanges(task, updates)
     /\ updates.status = "done"
     /\ ~Truthy(updates, "completionDate")
    THEN Spread(updates, [completionDate |-> toISOString(t)])
    ELSE updates

\* updates.notes || ''
NotesOf(updates) == IF Truthy(updates, "notes") THEN updates.notes ELSE ""

\* the updater of lines 145-156 applied to d at instant t
GuestUpdated(d, task, taskId, updates, t) ==
  LET entry == [id |-> generateId(t), taskId |-> taskId, taskTitle |-> task.title,
                category |-> task.category, oldStatus |-> task.status,
                newStatus |-> updates.status, changedBy |-> "Guest",
                changeDate |-> t, notes |-> NotesOf(updates)]
      merged == Stamped(task, updates, t)
  IN [d EXCEPT
        !.tasks = [k \in 1..Len(@) |->
                     IF @[k].id = taskId THEN Spread(@[k], merged) ELSE @[k]],
        !.history = IF StatusChanges(task, updates) THEN Append(@, entry) ELSE @]

\* lines 168-174: the columns that updateTask writes
DbUpdates(updates) ==
  LET column == [status |-> "status", notes |-> "notes", proofUrl |-> "proof_url",
                 timeSpentMinutes |-> "time_spent_minutes",
                 completionDate |-> "completion_date", attachments |-> "attachments"]
      sent == DOMAIN updates \cap DOMAIN column
  IN [col \in {column[f] : f \in sent} |->
        updates[CHOOSE f \in sent : column[f] = col]]

\* line 176: the update is sent when it writes a column
AfterStamp(c, i, updates) ==
  LET dbUpdates == DbUpdates(updates)
  IN Suspend(c, i, IF DOMAIN dbUpdates # {}
                     THEN [pc |-> "updateRow", updates |-> updates, dbUpdates |-> dbUpdates]
                     ELSE [pc |-> "fetch", updates |-> updates])

\* the partial tasks that updateTask is called with
UpdateInputs ==
  {[status |-> s] : s \in {"not-started", "in-progress", "done"}}
    \cup {[status |-> "done", completionDate |-> "2024-02-02"],
          [status |-> "skipped", title |-> "Renamed", notes |-> "why"],
          [title |-> "Retitled"],
          [notes |-> "note", timeSpentMinutes |-> 30, proofUrl |-> "https://proof.test"]}

MissingId == "0"

\* the partial tasks that updateTask is called with for a task that is not there
AbsentInputs == {[status |-> "done"], [title |-> "Retitled"]}

TaskIds(d) == {d.tasks[k].id : k \in 1..Len(d.tasks)}

\* UpdateTaskAbsent without the return of line 142: the updater runs over the snapshot
\* and the result is saved
UpdateTaskUnchecked(taskId, updates) ==
  /\ Find(data.tasks, taskId) = {}
  /\ UpdateLocal(data)
  /\ last' = Did("updateTask", "absent", "void", <<taskId>>)
  /\ UNCHANGED <<user, loading, prevUserRef, remote, calls, now, failures>>

\* updateTask(taskId, updates) for a task that is not in the snapshot (lines 141-142)
UpdateTaskAbsent(taskId, updates) ==
  /\ Find(data.tasks, taskId) = {}
  /\ last' = Did("updateTask", "absent", "void", <<taskId>>)
  /\ UNCHANGED <<user, data, loading, prevUserRef, local, remote, calls, now, failures>>

\* updateTask in guest mode (lines 144-158)
GuestUpdateTask(taskId, updates) ==
  /\ user = NoUser
  /\ now < MaxClock
  /\ \E task \in Find(data.tasks, taskId) :
       /\ UpdateLocal(GuestUpdated(data, task, taskId, updates, now + 1))
       /\ last' = GuestEvent("updateTask", "void", <<taskId, updates>>)
  /\ now' = now + 1
  /\ UNCHANGED <<user, loading, prevUserRef, remote, calls, failures>>

\* updateTask is called in cloud mode (lines 140-142, 160): it runs to its first await
CallUpdateTask(taskId, updates) ==
  \E task \in Find(data.tasks, taskId) :
    LET c == [op |-> "updateTask", taskId |-> taskId, task |-> task, updates |-> updates]
        dbUpdates == DbUpdates(updates)
    IN Call(IF StatusChanges(task, updates) THEN Spread(c, [pc |-> "insertHistory"])
            ELSE IF DOMAIN dbUpdates # {}
              THEN Spread(c, [pc |-> "updateRow", dbUpdates |-> dbUpdates])
              ELSE Spread(c, [pc |-> "fetch"]))

\* updateTask from the await of its history insert to its next await (lines 161-177)
DoInsertHistory(c, i, ok) ==
  LET values == [user_id |-> c.user, task_id |-> c.taskId, task_title |-> c.task.title,
                 category |-> c.task.category, old_status |-> c.task.status,
                 new_status |-> c.updates.status, changed_by |-> "Admin",
                 notes |-> NotesOf(c.updates)]
      row == HistoryRow(values, gen_random_uuid(now + 1), now + 1)
      \* WITH CHECK (auth.uid() = user_id), and task_id REFERENCES seo_tasks(id)
      accepted == /\ ok
                  /\ user = c.user
                  /\ \E t \in remote.tasks : t.id = c.taskId
  IN /\ c.pc = "insertHistory"
     /\ Budget(ok)
     /\ Spend(ok)
     /\ now < MaxClock
     /\ now' = now + 1
     /\ remote' = IF accepted THEN [remote EXCEPT !.history = @ \cup {row}] ELSE remote
     /\ AfterStamp(Answered(c, accepted), i, Stamped(c.task, c.updates, now + 1))
     /\ UNCHANGED <<user, data, loading, prevUserRef, local>>

\* from the await of an update of seo_tasks to the await of loadCloud (lines 177-179,
\* 213-214, 234-235); the answer is not looked at
DoUpdateRow(c, i, ok) ==
  LET found == \E t \in Visible(remote.tasks, user) : t.id = c.taskId
  IN /\ c.pc = "updateRow"
     /\ Budget(ok)
     /\ Spend(ok)
     /\ now < MaxClock
     /\ now' = now + 1
     /\ remote' = IF ok THEN UpdateTaskRows(remote, user, c.taskId, c.dbUpdates) ELSE remote
     /\ Suspend(Answered(c, ok /\ found /\ user = c.user), i, [pc |-> "fetch"])
     /\ UNCHANGED <<user, data, loading, prevUserRef, local>>

\* ------------------------------------------------------------------ deleteProject
\* the updater of lines 241-245
GuestDeleted(d, projectId) ==
  LET keptTasks == {t \in Range(d.tasks) : t.projectId # projectId}
      \* d.tasks.find(t => t.id === h.taskId)?.projectId !== projectId
      kept(h) == \A t \in Find(d.tasks, h.taskId) : t.projectId # projectId
  IN [projects |-> Filter(d.projects, {p \in Range(d.projects) : p.id # projectId}),
      tasks |-> Filter(d.tasks, keptTasks),
      history |-> Filter(d.history, {h \in Range(d.history) : kept(h)})]

ProjectIds(d) == {d.projects[k].id : k \in 1..Len(d.projects)}

\* deleteProject in guest mode (lines 240-247)
GuestDeleteProject(projectId) ==
  /\ user = NoUser
  /\ now < MaxClock
  /\ UpdateLocal(GuestDeleted(data, projectId))
  /\ last' = GuestEvent("deleteProject", "void", <<projectId>>)
  /\ now' = now + 1
  /\ UNCHANGED <<user, loading, prevUserRef, remote, calls, failures>>

\* deleteProject is called in cloud mode (line 248)
CallDeleteProject(projectId) ==
  Call([op |-> "deleteProject", pc |-> "deleteRow", projectId |-> projectId])

\* DoDeleteRow without the loadCloud() of line 249
DeleteRowWithoutReload(c, i, ok) ==
  LET found == \E p \in Visible(remote.projects, user) : p.id = c.projectId
  IN /\ c.pc = "deleteRow"
     /\ Budget(ok)
     /\ Spend(ok)
     /\ now < MaxClock
     /\ now' = now + 1
     /\ remote' = IF ok THEN DeleteProjectRows(remote, user, c.projectId) ELSE remote
     /\ Return(Answered(c, ok /\ found /\ user = c.user), i, "void")
     /\ UNCHANGED <<user, data, loading, prevUserRef, local>>

\* deleteProject from the await of its delete to the await of loadCloud (lines 248-249)
DoDeleteRow(c, i, ok) ==
  LET found == \E p \in Visible(remote.projects, user) : p.id = c.projectId
  IN /\ c.pc = "deleteRow"
     /\ Budget(ok)
     /\ Spend(ok)
     /\ now < MaxClock
     /\ now' = now + 1
     /\ remote' = IF ok THEN DeleteProjectRows(remote, user, c.projectId) ELSE remote
     /\ Suspend(Answered(c, ok /\ found /\ user = c.user), i, [pc |-> "fetch"])
     /\ UNCHANGED <<user, data, loading, prevUserRef, local>>

\* ------------------------------------------------------------------ attachments
Files == {"shot.png"}

\* reader.result of readAsDataURL(file)
DataUrl(file) == [kind |-> "data", body |-> file]

\* `${user.id}/${taskId}/${Date.now()}.${ext}` (lines 201-202)
StoragePath(userId, taskId, t) == userId \o "/" \o taskId \o "/" \o ToString(t) \o ".png"

\* getPublicUrl(path).publicUrl: the only references that include 'task-attachments'
PublicUrl(path) == [kind |-> "storage", body |-> path]

\* task?.attachments || [] for the task the closure found (a set with the task, or {})
AttachmentsOf(found) == IF found = {} THEN <<>> ELSE (CHOOSE t \in found : TRUE).attachments

\* d.tasks.map(t => t.id === taskId ? { ...t, attachments } : t)
WithAttachments(d, taskId, attachments) ==
  [d EXCEPT !.tasks = [k \in 1..Len(@) |->
     IF @[k].id = taskId THEN Spread(@[k], [attachments |-> attachments]) ELSE @[k]]]

\* uploadAttachment is called in guest mode (lines 184-198): readAsDataURL is started
GuestUploadAttachment(taskId, file) ==
  /\ user = NoUser
  /\ CanCall
  /\ calls' = Append(calls, [op |-> "uploadAttachment", pc |-> "reading", user |-> NoUser,
                             clean |-> TRUE, taskId |-> taskId, file |-> file,
                             found |-> Find(data.tasks, taskId)])
  /\ last' = Did("uploadAttachment", "call", "pending", <<>>)
  /\ UNCHANGED <<user, data, loading, prevUserRef, local, remote, now, failures>>

\* reader.onload (lines 188-196); with ok = FALSE the read fails, no onerror handler is
\* set and the promise stays pending
DoOnload(c, i, ok) ==
  /\ c.pc = "reading"
  /\ Budget(ok)
  /\ Spend(ok)
  /\ now < MaxClock
  /\ now' = now + 1
  /\ IF ok
       THEN /\ IF c.found # {}
                 THEN UpdateLocal(WithAttachments(data, c.taskId,
                                    Append(AttachmentsOf(c.found), DataUrl(c.file))))
                 ELSE UNCHANGED <<data, local>>
            /\ Return(c, i, DataUrl(c.file).body)
       ELSE /\ Suspend(Answered(c, FALSE), i, [pc |-> "never"])
            /\ UNCHANGED <<data, local>>
  /\ UNCHANGED <<user, loading, prevUserRef, remote>>

\* uploadAttachment is called in cloud mode (lines 201-203)
CallUploadAttachment(taskId, file) ==
  Call([op |-> "uploadAttachment", pc |-> "upload", taskId |-> taskId, file |-> file,
        found |-> Find(data.tasks, taskId)])

\* uploadAttachment from the await of the upload to its next await (lines 203-213)
DoUpload(c, i, ok) ==
  LET path == StoragePath(c.user, c.taskId, now + 1)
      url == PublicUrl(path)
      \* WITH CHECK (auth.uid()::text = (storage.foldername(name))[1])
      accepted == ok /\ user = c.user
  IN /\ c.pc = "upload"
     /\ Budget(ok)
     /\ Spend(ok)
     /\ now < MaxClock
     /\ now' = now + 1
     /\ IF accepted
          THEN /\ remote' = [remote EXCEPT
                                !.objects = @ \cup {[name |-> path, folder |-> c.user]}]
               /\ Suspend(Answered(c, TRUE), i, [pc |-> "updateRow", url |-> url,
                     dbUpdates |-> [attachments |-> Append(AttachmentsOf(c.found), url)]])
          ELSE /\ UNCHANGED remote
               /\ Return(Answered(c, FALSE), i, Null)
     /\ UNCHANGED <<user, data, loading, prevUserRef, local>>

\* the references shown with the tasks of the snapshot
Attachments(d) == UNION {Range(d.tasks[k].attachments) : k \in 1..Len(d.tasks)}

\* (task.attachments || []).filter(a => a !== attachmentUrl) (line 222)
Without(attachments, url) == Filter(attachments, Range(attachments) \ {url})

\* deleteAttachment in guest mode (lines 220-227)
GuestDeleteAttachment(taskId, url) ==
  /\ user = NoUser
  /\ \E task \in Find(data.tasks, taskId) :
       UpdateLocal(WithAttachments(data, taskId, Without(task.attachments, url)))
  /\ last' = GuestEvent("deleteAttachment", "void", <<taskId, url>>)
  /\ UNCHANGED <<user, loading, prevUserRef, remote, calls, now, failures>>

\* deleteAttachment is called in cloud mode (lines 220-234): the object is removed first
\* when the reference is one of the bucket
CallDeleteAttachment(taskId, url) ==
  \E task \in Find(data.tasks, taskId) :
    Call([op |-> "deleteAttachment", taskId |-> taskId, url |-> url,
          pc |-> IF url.kind = "storage" THEN "remove" ELSE "updateRow",
          dbUpdates |-> [attachments |-> Without(task.attachments, url)]])

\* DoRemove giving up when the removal fails, as uploadAttachment does at line 204
RemoveOrGiveUp(c, i, ok) ==
  LET mine == {o \in remote.objects : o.name = c.url.body /\ o.folder = user}
  IN /\ c.pc = "remove"
     /\ Budget(ok)
     /\ Spend(ok)
     /\ remote' = IF ok THEN [remote EXCEPT !.objects = @ \ mine] ELSE remote
     /\ IF ok THEN Suspend(Answered(c, mine # {}), i, [pc |-> "updateRow"])
              ELSE Return(Answered(c, FALSE), i, "void")
     /\ UNCHANGED <<user, data, loading, prevUserRef, local, now>>

\* deleteAttachment from the await of the removal to the await of the update (lines
\* 232-234); the answer is not looked at
DoRemove(c, i, ok) ==
  \* USING (auth.uid()::text = (storage.foldername(name))[1])
  LET mine == {o \in remote.objects : o.name = c.url.body /\ o.folder = user}
  IN /\ c.pc = "remove"
     /\ Budget(ok)
     /\ Spend(ok)
     /\ remote' = IF ok THEN [remote EXCEPT !.objects = @ \ mine] ELSE remote
     /\ Suspend(Answered(c, ok /\ mine # {}), i, [pc |-> "updateRow"])
     /\ UNCHANGED <<user, data, loading, prevUserRef, local, now>>

\* ------------------------------------------------------------------ read views
\* getProjectTasks(projectId, category) on snapshot d; category is Null when not given
getProjectTasks(d, projectId, category) ==
  Filter(d.tasks, {t \in Range(d.tasks) :
                     t.projectId = projectId /\ (category = Null \/ t.category = category)})

RECURSIVE Inserted(_, _)
\* entry e put into the list s, which is sorted by the comparator of lines 258-259
\* (b's time minus a's time, the change dates being kept as the instants they denote):
\* e goes behind every entry that is not older than it
Inserted(e, s) ==
  IF s = <<>> THEN <<e>>
  ELSE IF e.changeDate - s[1].changeDate <= 0
         THEN <<s[1]>> \o Inserted(e, Tail(s))
         ELSE <<e>> \o s

RECURSIVE SortedNewestFirst(_)
\* Array.prototype.sort with that comparator: a stable sort
SortedNewestFirst(s) ==
  IF s = <<>> THEN <<>>
  ELSE Inserted(s[Len(s)], SortedNewestFirst(SubSeq(s, 1, Len(s) - 1)))

\* getProjectHistory without the sort
HistoryAsStored(d, projectId) ==
  LET projectTaskIds == {t.id : t \in {t \in Range(d.tasks) : t.projectId = projectId}}
  IN Filter(d.history, {h \in Range(d.history) : h.taskId \in projectTaskIds})

\* getProjectHistory(projectId) on snapshot d (lines 256-261)
getProjectHistory(d, projectId) ==
  LET projectTaskIds == {t.id : t \in {t \in Range(d.tasks) : t.projectId = projectId}}
  IN SortedNewestFirst(Filter(d.history, {h \in Range(d.history) : h.taskId \in projectTaskIds}))

\* ------------------------------------------------------------------ getStats
\* tasks.filter(t => t.status === status).length
CountOf(tasks, status) == Len(Filter(tasks, {t \in Range(tasks) : t.status = status}))

\* getStats with the skipped tasks left out of every bucket
StatsWithoutSkipped(d, projectId) ==
  LET tasks == Filter(d.tasks, {t \in Range(d.tasks) : t.projectId = projectId})
  IN [total |-> Len(tasks),
      done |-> CountOf(tasks, "done"),
      inProgress |-> CountOf(tasks, "in-progress"),
      notStarted |-> CountOf(tasks, "not-started"),
      skipped |-> 0]

\* getStats(projectId) on snapshot d (lines 272-281)
getStats(d, projectId) ==
  LET tasks == Filter(d.tasks, {t \in Range(d.tasks) : t.projectId = projectId})
  IN [total |-> Len(tasks),
      done |-> CountOf(tasks, "done"),
      inProgress |-> CountOf(tasks, "in-progress"),
      notStarted |-> CountOf(tasks, "not-started"),
      skipped |-> CountOf(tasks, "skipped")]

\* ------------------------------------------------------------------ getProjectScore
RECURSIVE GCD(_, _)
GCD(a, b) == IF b = 0 THEN a ELSE GCD(b, a % b)

\* the fractions c/t in lowest terms for which 100 * c / t is k + 1/2 and the double
\* (c / t) * 100 is below it: c / t is rounded to the nearest double, so is the product,
\* and for these the product is the double just below k + 1/2 (23 / 40 * 100 is
\* 57.49999999999999); for every other fraction the double is on the side of k + 1/2
\* that the quotient is on, or is k + 1/2 itself
BelowHalf == {<<23, 40>>, <<29, 200>>, <<57, 200>>, <<113, 200>>}

\* MathRoundPercent with Math.ceil in the place of Math.round
CeilPercent(c, t) == (100 * c + t - 1) \div t

\* Math.round((c / t) * 100) for integers 0 <= c <= t, 0 < t: Math.round takes a double
\* to the nearest integer, and k + 1/2 to k + 1
MathRoundPercent(c, t) ==
  LET g == GCD(c, t)
      nearest == (200 * c + t) \div (2 * t)
  IN IF <<c \div g, t \div g>> \in BelowHalf THEN nearest - 1 ELSE nearest

\* { high: 3, medium: 2, low: 1 } (line 266)
weights == [high |-> 3, medium |-> 2, low |-> 1]

RECURSIVE SumOfWeights(_)
\* tasks.reduce((s, t) => s + weights[t.expectedImpact], 0)
SumOfWeights(tasks) ==
  IF tasks = <<>> THEN 0
  ELSE weights[tasks[1].expectedImpact] + SumOfWeights(Tail(tasks))

\* getProjectScore with the weight of the done tasks of every project as completedWeight
ScoreOverAllProjects(d, projectId) ==
  LET tasks == Filter(d.tasks, {t \in Range(d.tasks) : t.projectId = projectId})
      totalWeight == SumOfWeights(tasks)
      completedWeight ==
        SumOfWeights(Filter(d.tasks, {t \in Range(d.tasks) : t.status = "done"}))
  IN IF Len(tasks) = 0 THEN 0 ELSE MathRoundPercent(completedWeight, totalWeight)

\* getProjectScore(projectId) on snapshot d (lines 263-270)
getProjectScore(d, projectId) ==
  LET tasks == Filter(d.tasks, {t \in Range(d.tasks) : t.projectId = projectId})
      totalWeight == SumOfWeights(tasks)
      completedWeight ==
        SumOfWeights(Filter(tasks, {t \in Range(tasks) : t.status = "done"}))
  IN IF Len(tasks) = 0 THEN 0 ELSE MathRoundPercent(completedWeight, totalWeight)

\* ------------------------------------------------------------------ specification
InitialUsers == {NoUser, "u1"}

Init ==
  /\ user \in InitialUsers
  /\ local = [kind |-> "absent", value |-> EmptyStore]
  /\ data = EmptyStore
  /\ loading = (user # NoUser)
  /\ prevUserRef = IF user = NoUser THEN Undefined ELSE user
  /\ remote = [projects |-> {}, tasks |-> {}, history |-> {}, objects |-> {}]
  /\ calls = IF user = NoUser THEN <<>>
             ELSE <<[op |-> "loadCloud", pc |-> "fetch", user |-> user, clean |-> TRUE]>>
  /\ now = 0
  /\ failures = 0
  /\ last = Did("mount", "init", "void", <<>>)

\* the identity signal changes (sign-in, sign-out)
IdentityChanges == \E u \in Users \cup {NoUser} : UserChanged(u)

\* the store operations as the consumers of the hook call them
CreateProjectGuest == \E p \in ProjectInputs : GuestCreateProject(p)
CreateProjectCloud == \E p \in ProjectInputs : CallCreateProject(p)
UpdateAbsentTask == \E u \in AbsentInputs : UpdateTaskAbsent(MissingId, u)
UpdateTaskGuest == \E id \in TaskIds(data), u \in UpdateInputs : GuestUpdateTask(id, u)
UpdateTaskCloud == \E id \in TaskIds(data), u \in UpdateInputs : CallUpdateTask(id, u)
\* deleteProject is also called for a project that the snapshot no longer shows
DeleteProjectGuest == \E id \in ProjectIds(data) \cup {MissingId} : GuestDeleteProject(id)
DeleteProjectCloud == \E id \in ProjectIds(data) : CallDeleteProject(id)
UploadGuest == \E id \in TaskIds(data), f \in Files : GuestUploadAttachment(id, f)
UploadCloud == \E id \in TaskIds(data), f \in Files : CallUploadAttachment(id, f)
DeleteAttachmentGuest ==
  \E id \in TaskIds(data), a \in Attachments(data) : GuestDeleteAttachment(id, a)
DeleteAttachmentCloud ==
  \E id \in TaskIds(data), a \in Attachments(data) : CallDeleteAttachment(id, a)

\* a suspended call is resumed by the answer it awaits
InsertProject == \E i \in 1..Len(calls), ok \in BOOLEAN : DoInsertProject(calls[i], i, ok)
InsertTasks == \E i \in 1..Len(calls), ok \in BOOLEAN : DoInsertTasks(calls[i], i, ok)
InsertHistory == \E i \in 1..Len(calls), ok \in BOOLEAN : DoInsertHistory(calls[i], i, ok)
UpdateRow == \E i \in 1..Len(calls), ok \in BOOLEAN : DoUpdateRow(calls[i], i, ok)
DeleteRow == \E i \in 1..Len(calls), ok \in BOOLEAN : DoDeleteRow(calls[i], i, ok)
Onload == \E i \in 1..Len(calls), ok \in BOOLEAN : DoOnload(calls[i], i, ok)
Upload == \E i \in 1..Len(calls), ok \in BOOLEAN : DoUpload(calls[i], i, ok)
Remove == \E i \in 1..Len(calls), ok \in BOOLEAN : DoRemove(calls[i], i, ok)
Fetch == \E i \in 1..Len(calls), out \in FetchOutcomes : DoFetch(calls[i], i, out)
Apply == \E i \in 1..Len(calls) : DoApply(calls[i], i)

Next ==
  \/ IdentityChanges
  \/ CreateProjectGuest
  \/ CreateProjectCloud
  \/ UpdateAbsentTask
  \/ UpdateTaskGuest
  \/ UpdateTaskCloud
  \/ DeleteProjectGuest
  \/ DeleteProjectCloud
  \/ UploadGuest
  \/ UploadCloud
  \/ DeleteAttachmentGuest
  \/ DeleteAttachmentCloud
  \/ InsertProject
  \/ InsertTasks
  \/ InsertHistory
  \/ UpdateRow
  \/ DeleteRow
  \/ Onload
  \/ Upload
  \/ Remove
  \/ Fetch
  \/ Apply

Spec == Init /\ [][Next]_vars

\* the accounts that sign in one after the other in the same browser
Accounts == {"u1", "u2"}

\* the identity signal changes: sign-in, sign-out, or another account
IdentitySwitches == \E u \in Accounts \cup {NoUser} : UserChanged(u)

\* the identity signal fires for the same account
IdentityRefreshes == UserRefreshed

SwitchNext ==
  \/ IdentitySwitches
  \/ IdentityRefreshes
  \/ CreateProjectCloud
  \/ InsertProject
  \/ InsertTasks
  \/ Fetch
  \/ Apply

\* the store used by two accounts in turn
SwitchSpec == Init /\ [][SwitchNext]_vars

\* n tasks of a project with one impact and one status, numbered from base + 1
TasksOfOneKind(n, projectId, impact, status, base) ==
  LET fields == IF status = "done"
                  THEN [expectedImpact |-> impact, status |-> status,
                        completionDate |-> toISOString(0)]
                  ELSE [expectedImpact |-> impact, status |-> status]
  IN [k \in 1..n |->
        Spread(NewTask(SEO_TASK_TEMPLATES[1], generateId(base + k), projectId, 0), fields)]

ScoredProject == "p1"
OtherProject == "p2"

\* the statuses of a task that is not done
OpenStatuses == Statuses \ {"done"}

\* the snapshots that the score is read from: two projects, the first with any number
\* of tasks of each impact, done or not, the other with no task or with done ones
ScoredSnapshots ==
  {[projects |-> [k \in 1..2 |->
                   Spread(CHOOSE p \in ProjectInputs : TRUE,
                          [id |-> <<ScoredProject, OtherProject>>[k], createdAt |-> 0])],
    history |-> <<>>,
    tasks |-> TasksOfOneKind(dh, ScoredProject, "high", "done", 0)
              \o TasksOfOneKind(oh, ScoredProject, "high", open, 100)
              \o TasksOfOneKind(dm, ScoredProject, "medium", "done", 200)
              \o TasksOfOneKind(om, ScoredProject, "medium", open, 300)
              \o TasksOfOneKind(dl, ScoredProject, "low", "done", 400)
              \o TasksOfOneKind(ol, ScoredProject, "low", open, 500)
              \o TasksOfOneKind(other, OtherProject, "high", "done", 600)] :
     dh \in 0..MaxDoneHigh, oh \in 0..MaxOpenHigh,
     dm \in 0..MaxOfEach, om \in 0..MaxOfEach, dl \in 0..MaxOfEach, ol \in 0..MaxOfEach,
     other \in 0..MaxOfEach, open \in OpenStatuses}

\* the hook rendered in guest mode over a snapshot
ScoreInit ==
  /\ user = NoUser
  /\ data \in ScoredSnapshots
  /\ local = saveLocal(data)
  /\ loading = FALSE
  /\ prevUserRef = Undefined
  /\ remote = [projects |-> {}, tasks |-> {}, history |-> {}, objects |-> {}]
  /\ calls = <<>>
  /\ now = 0
  /\ failures = 0
  /\ last = Did("mount", "init", "void", <<>>)

\* a consumer reads getProjectScore(projectId)
ReadScore(projectId) ==
  /\ last' = Did("getProjectScore", "read", getProjectScore(data, projectId), <<projectId>>)
  /\ UNCHANGED <<user, data, loading, prevUserRef, local, remote, calls, now, failures>>

ReadsScore == \E projectId \in {ScoredProject, OtherProject} : ReadScore(projectId)

ScoreNext == ReadsScore

\* the score read from every snapshot
ScoreSpec == ScoreInit /\ [][ScoreNext]_vars

\* a reference that is not one of the bucket (no 'task-attachments' in it)
ExternalLink == [kind |-> "link", body |-> "https://proof.test/shot.png"]

\* the relations after account u created a project at instant t0 and uploaded a file to
\* its first task, whose list may hold an external reference too (put there by
\* updateTask with attachments)
AttachedRelations(u, t0, more) ==
  LET n == Len(SEO_TASK_TEMPLATES)
      p == CHOOSE q \in ProjectInputs : TRUE
      project == ProjectRow([user_id |-> u, name |-> p.name, domain |-> p.domain,
                             start_date |-> p.startDate, client_name |-> p.clientName,
                             industry |-> p.industry], gen_random_uuid(t0), t0)
      row(k) == TaskRow(NewTaskRow(SEO_TASK_TEMPLATES[k], u, project.id),
                        gen_random_uuid(t0 + k), t0 + 1)
      path == StoragePath(u, row(1).id, t0 + n + 1)
      attached == Spread(row(1), [attachments |-> <<PublicUrl(path)>> \o more])
  IN [projects |-> {project},
      tasks |-> {attached} \cup {row(k) : k \in 2..n},
      history |-> {},
      objects |-> {[name |-> path, folder |-> u]}]

\* the hook of a signed-in account whose snapshot shows a task with an attachment; the
\* rows were made at the instants before 0
AttachInit ==
  /\ user \in Users
  /\ \E more \in {<<>>, <<ExternalLink>>} :
       remote = AttachedRelations(user, 0 - (Len(SEO_TASK_TEMPLATES) + 2), more)
  /\ data \in FetchResults(remote, user, {})
  /\ local = [kind |-> "absent", value |-> EmptyStore]
  /\ loading = FALSE
  /\ prevUserRef = user
  /\ calls = <<>>
  /\ now = 0
  /\ failures = 0
  /\ last = Did("mount", "init", "void", <<>>)

AttachNext ==
  \/ IdentityChanges
  \/ UploadCloud
  \/ DeleteAttachmentCloud
  \/ Upload
  \/ Remove
  \/ UpdateRow
  \/ Fetch
  \/ Apply

\* the attachments of the tasks of a signed-in account
AttachSpec == AttachInit /\ [][AttachNext]_vars

\* the hook of the first account, whose snapshot shows its project and tasks (rows made
\* at the instants before 0); the second account has no row yet
OwnersInit ==
  /\ user = "u1"
  /\ remote = AttachedRelations(user, 0 - (Len(SEO_TASK_TEMPLATES) + 2), <<>>)
  /\ data \in FetchResults(remote, user, {})
  /\ local = [kind |-> "absent", value |-> EmptyStore]
  /\ loading = FALSE
  /\ prevUserRef = user
  /\ calls = <<>>
  /\ now = 0
  /\ failures = 0
  /\ last = Did("mount", "init", "void", <<>>)

\* updateTask(taskId, { status: 'done' }) on a task that the snapshot shows
CompleteTaskCloud == \E id \in TaskIds(data) : CallUpdateTask(id, [status |-> "done"])

OwnersNext ==
  \/ IdentitySwitches
  \/ CreateProjectCloud
  \/ CompleteTaskCloud
  \/ DeleteProjectCloud
  \/ InsertProject
  \/ InsertTasks
  \/ InsertHistory
  \/ UpdateRow
  \/ DeleteRow
  \/ Fetch
  \/ Apply

\* the relations used by two accounts in turn from one browser
OwnersSpec == OwnersInit /\ [][OwnersNext]_vars

\* the store that a guest left at the instants before 0: a project (made at t0) whose
\* first task was set to done afterwards, with the history entry of that
GuestLeftovers(t0) ==
  LET made == WithNewProject(EmptyStore, CHOOSE p \in ProjectInputs : TRUE, t0)
      task == made.tasks[1]
  IN GuestUpdated(made, task, task.id, [status |-> "done"], t0 + Len(SEO_TASK_TEMPLATES) + 1)

\* the hook mounts in a browser where a guest has worked before
ReturnInit ==
  /\ user \in InitialUsers
  /\ local = saveLocal(GuestLeftovers(0 - (Len(SEO_TASK_TEMPLATES) + 2)))
  /\ data = IF user = NoUser THEN loadLocal(local) ELSE EmptyStore
  /\ loading = (user # NoUser)
  /\ prevUserRef = IF user = NoUser THEN Undefined ELSE user
  /\ remote = [projects |-> {}, tasks |-> {}, history |-> {}, objects |-> {}]
  /\ calls = IF user = NoUser THEN <<>>
             ELSE <<[op |-> "loadCloud", pc |-> "fetch", user |-> user, clean |-> TRUE]>>
  /\ now = 0
  /\ failures = 0
  /\ last = Did("mount", "init", "void", <<>>)

\* updateTask(taskId, { status: 'in-progress' }) by a guest
StartTaskGuest == \E id \in TaskIds(data) : GuestUpdateTask(id, [status |-> "in-progress"])

ReturnNext ==
  \/ IdentityChanges
  \/ CreateProjectGuest
  \/ StartTaskGuest
  \/ UploadGuest
  \/ DeleteAttachmentGuest
  \/ CompleteTaskCloud
  \/ InsertHistory
  \/ UpdateRow
  \/ Onload
  \/ Fetch
  \/ Apply

\* the store in a browser that holds the blob of an earlier guest session
ReturnSpec == ReturnInit /\ [][ReturnNext]_vars

MaxHistory == 3

\* the tasks of the two projects of the snapshots that the views are read from
ViewedTasks ==
  [k \in 1..(2 * Len(SEO_TASK_TEMPLATES)) |->
     LET n == Len(SEO_TASK_TEMPLATES)
         projectId == IF k <= n THEN ScoredProject ELSE OtherProject
     IN NewTask(SEO_TASK_TEMPLATES[((k - 1) % n) + 1], generateId(10 + k), projectId, 0)]

\* the history entries of instant t for the task with id taskId (MissingId: a task that
\* the snapshot does not hold)
ChangeOf(taskId, t) ==
  [taskId |-> taskId, taskTitle |-> "Task", category |-> "technical",
   oldStatus |-> "not-started", newStatus |-> "done", changedBy |-> "Guest",
   changeDate |-> t, notes |-> ""]

\* snapshots of two projects with up to MaxHistory history entries, in every order
ViewedSnapshots ==
  {[projects |-> [k \in 1..2 |->
                   Spread(CHOOSE p \in ProjectInputs : TRUE,
                          [id |-> <<ScoredProject, OtherProject>>[k], createdAt |-> 0])],
    tasks |-> ViewedTasks,
    history |-> [k \in 1..Len(h) |-> Spread(h[k], [id |-> generateId(100 + k)])]] :
     h \in UNION {[1..n -> {ChangeOf(id, t) : id \in TaskIds([tasks |-> ViewedTasks]) \cup {MissingId},
                                               t \in 1..MaxHistory}] : n \in 0..MaxHistory}}

\* the hook rendered in guest mode over a snapshot
ViewInit ==
  /\ user = NoUser
  /\ data \in ViewedSnapshots
  /\ local = saveLocal(data)
  /\ loading = FALSE
  /\ prevUserRef = Undefined
  /\ remote = [projects |-> {}, tasks |-> {}, history |-> {}, objects |-> {}]
  /\ calls = <<>>
  /\ now = 0
  /\ failures = 0
  /\ last = Did("mount", "init", "void", <<>>)

\* a consumer reads getProjectHistory(projectId)
ReadHistory(projectId) ==
  /\ last' = Did("getProjectHistory", "read", getProjectHistory(data, projectId), <<projectId>>)
  /\ UNCHANGED <<user, data, loading, prevUserRef, local, remote, calls, now, failures>>

\* a consumer reads getProjectTasks(projectId, category)
ReadTasks(projectId, category) ==
  /\ last' = Did("getProjectTasks", "read", getProjectTasks(data, projectId, category),
                 <<projectId, category>>)
  /\ UNCHANGED <<user, data, loading, prevUserRef, local, remote, calls, now, failures>>

ViewedProjects == {ScoredProject, OtherProject, MissingId}

ReadsHistory == \E projectId \in ViewedProjects : ReadHistory(projectId)

ReadsTasks ==
  \E projectId \in ViewedProjects, category \in {Null, "technical", "on-page", "local"} :
    ReadTasks(projectId, category)

ViewNext == ReadsHistory \/ ReadsTasks

\* the views read from every snapshot
ViewSpec == ViewInit /\ [][ViewNext]_vars

MaxOverlap == 2

\* a store operation is called in cloud mode while other store operations are awaiting
\* their answers: the callback runs to its first await with what the rendered snapshot
\* shows
CallOverlapping(c) ==
  /\ user # NoUser
  /\ Pending(StoreOps) < MaxOverlap
  /\ calls' = Append([j \in 1..Len(calls) |->
                        Answered(calls[j], calls[j].op \notin StoreOps)],
                     Spread(c, [user |-> user, clean |-> Pending(StoreOps) = 0]))
  /\ last' = Did(c.op, "call", "pending", <<>>)
  /\ UNCHANGED <<user, data, loading, prevUserRef, local, remote, now, failures>>

\* updateTask(taskId, { status }) is called, possibly before an earlier call has
\* returned and refreshed the snapshot (lines 140-142, 160)
OverlapUpdate ==
  \E id \in TaskIds(data), status \in {"in-progress", "done"} :
    \E task \in Find(data.tasks, id) :
      LET updates == [status |-> status]
          c == [op |-> "updateTask", taskId |-> id, task |-> task, updates |-> updates]
      IN CallOverlapping(
           IF StatusChanges(task, updates) THEN Spread(c, [pc |-> "insertHistory"])
           ELSE Spread(c, [pc |-> "updateRow", dbUpdates |-> DbUpdates(updates)]))

UpdateOverlapNext ==
  \/ OverlapUpdate
  \/ InsertHistory
  \/ UpdateRow
  \/ Fetch
  \/ Apply

\* status changes of the tasks of a signed-in account, issued without waiting
UpdateOverlapSpec == OwnersInit /\ [][UpdateOverlapNext]_vars

\* uploadAttachment(taskId, file) is called in cloud mode for a task that shows
\* attachments, possibly before an earlier attachment operation has returned and
\* refreshed the snapshot (lines 201-203, 210)
OverlapUpload ==
  \E id \in TaskIds(data), f \in Files :
    /\ \E task \in Find(data.tasks, id) : task.attachments # <<>>
    /\ CallOverlapping([op |-> "uploadAttachment", pc |-> "upload", taskId |-> id,
                        file |-> f, found |-> Find(data.tasks, id)])

\* deleteAttachment(taskId, url) is called in cloud mode in the same way, for a reference
\* that the task shows (lines 220-234)
OverlapDeleteAttachment ==
  \E id \in TaskIds(data) :
    \E task \in Find(data.tasks, id) : \E url \in Range(task.attachments) :
      CallOverlapping([op |-> "deleteAttachment", taskId |-> id, url |-> url,
                       pc |-> IF url.kind = "storage" THEN "remove" ELSE "updateRow",
                       dbUpdates |-> [attachments |-> Without(task.attachments, url)]])

AttachOverlapNext ==
  \/ OverlapUpload
  \/ OverlapDeleteAttachment
  \/ Upload
  \/ Remove
  \/ UpdateRow
  \/ Fetch
  \/ Apply

\* attachment operations of a signed-in account, issued without waiting
AttachOverlapSpec == AttachInit /\ [][AttachOverlapNext]_vars

\* The page (Index) renders the project view for a project of its snapshot; ProjectView
\* calls useSEOStore() itself (ProjectView.tsx line 30) and so has a state of its own,
\* initialised from the local blob (line 34 of the store). The instance is kept with the
\* suspended calls, as [op |-> "ProjectView", pc |-> "mounted", data |-> its snapshot];
\* data stays the snapshot of the page's instance (Index.tsx line 17).
ViewMounted == \E i \in 1..Len(calls) : calls[i].op = "ProjectView"

MountProjectView ==
  /\ user = NoUser
  /\ ~ViewMounted
  /\ \E projectId \in ProjectIds(data) :
       calls' = Append(calls, [op |-> "ProjectView", pc |-> "mounted", user |-> NoUser,
                               clean |-> TRUE, projectId |-> projectId,
                               data |-> loadLocal(local)])
  /\ last' = Did("ProjectView", "mount", "void", <<>>)
  /\ UNCHANGED <<user, data, loading, prevUserRef, local, remote, now, failures>>

\* updateTask of the project view's instance, for a task of its project (guest branch,
\* lines 140-158): updateLocal sets the state of that instance and saves it
ProjectViewUpdates ==
  \E i \in 1..Len(calls), status \in {"in-progress", "done"} :
    /\ calls[i].op = "ProjectView"
    /\ now < MaxClock
    /\ \E task \in Range(getProjectTasks(calls[i].data, calls[i].projectId, Null)) :
         LET next == GuestUpdated(calls[i].data, task, task.id, [status |-> status], now + 1)
         IN /\ calls' = [calls EXCEPT ![i].data = next]
            /\ local' = saveLocal(next)
            /\ last' = Did("updateTask", "view", "void", <<task.id, [status |-> status]>>)
    /\ now' = now + 1
    /\ UNCHANGED <<user, data, loading, prevUserRef, remote, failures>>

\* onBack: the project view is unmounted and the page shows its list again
LeaveProjectView ==
  /\ \E i \in 1..Len(calls) : calls[i].op = "ProjectView" /\ calls' = Drop(i)
  /\ last' = Did("ProjectView", "unmount", "void", <<>>)
  /\ UNCHANGED <<user, data, loading, prevUserRef, local, remote, now, failures>>

\* the delete button of the page's list (Index.tsx line 195), shown when no project is
\* viewed
PageDeletesProject == ~ViewMounted /\ DeleteProjectGuest

\* a guest's page over the blob of an earlier session
ConsumersInit == ReturnInit /\ user = NoUser

ConsumersNext ==
  \/ CreateProjectGuest
  \/ PageDeletesProject
  \/ MountProjectView
  \/ ProjectViewUpdates
  \/ LeaveProjectView

\* the page and the project view, each with its own instance of the store
ConsumersSpec == ConsumersInit /\ [][ConsumersNext]_vars

\* what localStorage can hold under the key when the hook mounts: nothing, a text that
\* JSON.parse rejects, a store that saveLocal wrote (an empty one, one with a project),
\* and the JSON text of an object that is not a store ('{"projects":[]}')
StoredBlobs ==
  {[kind |-> "absent", value |-> EmptyStore],
   [kind |-> "unparseable", value |-> EmptyStore],
   saveLocal(EmptyStore),
   saveLocal(WithNewProject(EmptyStore, CHOOSE p \in ProjectInputs : TRUE, 0)),
   [kind |-> "json", value |-> [projects |-> <<>>]]}

\* the hook mounts over a local storage left by earlier sessions (lines 32-36)
LoadInit ==
  /\ user \in InitialUsers
  /\ local \in StoredBlobs
  /\ data = IF user = NoUser THEN loadLocal(local) ELSE EmptyStore
  /\ loading = (user # NoUser)
  /\ prevUserRef = IF user = NoUser THEN Undefined ELSE user
  /\ remote = [projects |-> {}, tasks |-> {}, history |-> {}, objects |-> {}]
  /\ calls = IF user = NoUser THEN <<>>
             ELSE <<[op |-> "loadCloud", pc |-> "fetch", user |-> user, clean |-> TRUE]>>
  /\ now = 0
  /\ failures = 0
  /\ last = Did("mount", "init", "void", <<>>)

LoadNext ==
  \/ IdentityChanges
  \/ Fetch
  \/ Apply

\* loadLocal as the hook calls it: at the mount and at every sign-out
LoadSpec == LoadInit /\ [][LoadNext]_vars

\* every request that was sent is answered, and every answer is handled
LiveSpec == Spec /\ WF_vars(Fetch) /\ WF_vars(Apply)

\* ------------------------------------------------------------------ properties
\* the step taken acts on the i-th suspended call
Acts(i) ==
  /\ i \in 1..Len(calls)
  /\ last'.op = calls[i].op
  /\ last'.step = calls[i].pc
  /\ \/ calls' = Drop(i)
     \/ /\ Len(calls') = Len(calls)
        /\ calls'[i] # calls[i]
        /\ \A j \in 1..Len(calls) : j # i => calls'[j] = calls[j]

\* the step taken is the return of the i-th suspended call, a call of op
Returns(i, op) == Acts(i) /\ calls[i].op = op /\ calls' = Drop(i)

\* the task is the clone of the template, with every mutable field at its default
MatchesTemplate(task, t) ==
  /\ task.category = t.category
  /\ task.title = t.title
  /\ task.executionSteps = t.executionSteps
  /\ task.toolsRequired = t.toolsRequired
  /\ task.expectedImpact = t.expectedImpact
  /\ task.priority = t.priority
  /\ task.status = "not-started"
  /\ task.notes = ""
  /\ task.proofUrl = ""
  /\ task.timeSpentMinutes = 0
  /\ task.attachments = <<>>

\* the tasks of the project in snapshot d are the clones of the templates, the k-th task
\* the clone of the order[k]-th template
SeededAs(d, projectId, order) ==
  LET tasks == getProjectTasks(d, projectId, Null)
  IN /\ Len(tasks) = Len(SEO_TASK_TEMPLATES)
     /\ \A k \in 1..Len(tasks) : MatchesTemplate(tasks[k], SEO_TASK_TEMPLATES[order[k]])

CatalogOrder == [k \in 1..Len(SEO_TASK_TEMPLATES) |-> k]

\* createProject has just returned from a clean call (no error, no overlap)
Created == last.op = "createProject" /\ last.step \in {"guest", "apply"} /\ last.clean

\* C1 (as the code has it): when a clean createProject returns, the tasks of the new
\* project in the snapshot are as many as the catalog has templates and correspond one
\* to one to the templates (category, title, steps, tools, impact, priority), each with
\* status not-started, empty notes, empty proof URL, zero minutes and no attachment; in
\* guest mode the i-th task is the clone of the i-th template, in cloud mode the order
\* is the one the re-fetch returned for rows that share their created_at
C1_SeededFromCatalog ==
  Created =>
    IF last.step = "guest" THEN SeededAs(data, last.ret, CatalogOrder)
    ELSE \E order \in Permutations(1..Len(SEO_TASK_TEMPLATES)) :
           SeededAs(data, last.ret, order)

\* C1 (as stated): in guest and in cloud mode the i-th task of the new project is the
\* clone of the i-th template
C1_SeededInCatalogOrder == Created => SeededAs(data, last.ret, CatalogOrder)

\* a clean cloud createProject has returned and its project is in the snapshot with a
\* catalog-sized task set
C1_CloudProjectSeeded ==
  /\ Created
  /\ last.step = "apply"
  /\ Len(getProjectTasks(data, last.ret, Null)) = Len(SEO_TASK_TEMPLATES)
  /\ last.ret \in ProjectIds(data)

\* C9: in cloud mode, when the project insert of createProject fails (no row is
\* inserted), the call ends there: no task insert and no re-fetch follow (the call is
\* no longer pending), the snapshot, the local blob and the remote relations are
\* unchanged, and createProject returns the empty string
C9_ProjectInsertFailed ==
  [][\A i \in 1..Len(calls) :
       (/\ Acts(i)
        /\ calls[i].op = "createProject"
        /\ calls[i].pc = "insertProject"
        /\ remote'.projects = remote.projects)
       => /\ calls' = Drop(i)
          /\ last'.ret = ""
          /\ data' = data
          /\ local' = local
          /\ remote' = remote
          /\ loading' = loading]_vars

\* createProject has just returned the empty string from its project insert
C9_ReturnedEmpty ==
  /\ last.op = "createProject"
  /\ last.step = "insertProject"
  /\ last.ret = ""
  /\ remote.projects = {}

\* the step taken is updateTask(taskId, updates) in guest mode
GuestUpdates == last'.op = "updateTask" /\ last'.step = "guest"

\* the update of the step or of the call asks for a status other than the task's
AsksOtherStatus(task, updates) ==
  "status" \in DOMAIN updates /\ updates.status # task.status

\* in guest mode updateTask appends one entry (old status, new status) when the update
\* asks for a status other than the one the task has in the snapshot, and none otherwise
C4Guest ==
  GuestUpdates =>
    \A task \in Find(data.tasks, last'.args[1]) :
      IF AsksOtherStatus(task, last'.args[2])
        THEN /\ Len(data'.history) = Len(data.history) + 1
             /\ SubSeq(data'.history, 1, Len(data.history)) = data.history
             /\ LET e == data'.history[Len(data'.history)]
                IN /\ e.taskId = last'.args[1]
                   /\ e.oldStatus = task.status
                   /\ e.newStatus = last'.args[2].status
        ELSE data'.history = data.history

\* in cloud mode updateTask goes to the insert of a history row exactly when the update
\* asks for a status other than the one the task has in the snapshot
C4Called ==
  (last'.op = "updateTask" /\ last'.step = "call") =>
    LET c == calls'[Len(calls')]
    IN \A task \in Find(data.tasks, c.taskId) :
         /\ c.task = task
         /\ (c.pc = "insertHistory") <=> AsksOtherStatus(task, c.updates)

\* the rows a step adds to task_history
AddedHistory == remote'.history \ remote.history

\* a step adds at most one history row, and only as the insert of an updateTask call
\* that asked for another status: the row carries the old and the new status
C4Rows ==
  AddedHistory # {} =>
    \E i \in 1..Len(calls) :
      /\ Acts(i)
      /\ calls[i].op = "updateTask"
      /\ calls[i].pc = "insertHistory"
      /\ Cardinality(AddedHistory) = 1
      /\ \A h \in AddedHistory :
           /\ h.task_id = calls[i].taskId
           /\ h.old_status = calls[i].task.status
           /\ h.new_status = calls[i].updates.status
           /\ h.old_status # h.new_status

\* the step taken resumes the i-th call, an updateTask, at its history insert
InsertsHistory(i) ==
  Acts(i) /\ calls[i].op = "updateTask" /\ calls[i].pc = "insertHistory"

\* the history insert of the i-th call is not refused: no failure on the way, the
\* caller's session, and the task's row exists
NotRefused(i) ==
  /\ failures' = failures
  /\ user = calls[i].user
  /\ \E t \in remote.tasks : t.id = calls[i].taskId

HasDate(task) ==
  "completionDate" \in DOMAIN task /\ task.completionDate \notin {Null, ""}

\* every stored task that is done has a completion date: in the snapshot, in the local
\* blob and in seo_tasks
DoneHasDate ==
  /\ \A t \in Range(data.tasks) \cup Range(loadLocal(local).tasks) :
       t.status = "done" => HasDate(t)
  /\ \A t \in remote.tasks : t.status = "done" => t.completion_date \notin {Null, ""}

\* guest mode: the task that became done carries the date that came with the update
C7Guest ==
  GuestUpdates =>
    \A task \in Find(data.tasks, last'.args[1]) :
      (AsksOtherStatus(task, last'.args[2]) /\ last'.args[2].status = "done") =>
        /\ Find(data'.tasks, last'.args[1]) # {}
        /\ \A t \in Find(data'.tasks, last'.args[1]) :
             /\ t.status = "done"
             /\ HasDate(t)
             /\ Truthy(last'.args[2], "completionDate") =>
                  t.completionDate = last'.args[2].completionDate

\* cloud mode: after the history insert the update to send carries a completion date,
\* the one that came with the update if one came
C7CloudSent ==
  \A i \in 1..Len(calls) :
    (InsertsHistory(i) /\ calls[i].updates.status = "done") =>
      /\ calls'[i].pc = "updateRow"
      /\ calls'[i].dbUpdates.status = "done"
      /\ calls'[i].dbUpdates.completion_date \notin {Null, ""}
      /\ calls'[i].updates.completionDate = calls'[i].dbUpdates.completion_date
      /\ Truthy(calls[i].updates, "completionDate") =>
           calls'[i].dbUpdates.completion_date = calls[i].updates.completionDate

\* cloud mode: when a clean updateTask that set the status to done returns, the task in
\* the snapshot is done and carries the date that was sent
C7CloudShown ==
  \A i \in 1..Len(calls) :
    (/\ Returns(i, "updateTask")
     /\ calls[i].clean
     /\ AsksOtherStatus(calls[i].task, calls[i].updates)
     /\ calls[i].updates.status = "done") =>
      /\ Find(data'.tasks, calls[i].taskId) # {}
      /\ \A t \in Find(data'.tasks, calls[i].taskId) :
           t.status = "done" /\ t.completionDate = calls[i].updates.completionDate

\* C7: after updateTask sets a task's status to done without a completion date in the
\* update, the task has a completion date; after it sets the status to done with a
\* completion date in the update, the task's completion date is that one (in guest mode
\* and in cloud mode; no stored task is done without a completion date)
C7_CompletionDate ==
  /\ []DoneHasDate
  /\ [][C7Guest /\ C7CloudSent /\ C7CloudShown]_vars

\* a clean cloud updateTask has returned and the snapshot shows a done task with a
\* stamped completion date
C7_StampedInCloud ==
  /\ last.op = "updateTask"
  /\ last.step = "apply"
  /\ last.clean
  /\ \E t \in Range(data.tasks) :
       t.status = "done" /\ HasDate(t) /\ t.completionDate # "2024-02-02"

\* C2: in every reachable state every project in the snapshot has its full
\* catalog-sized task set in the same snapshot (never a project with no task or with
\* part of its tasks)
C2_FullTaskSet ==
  \A p \in Range(data.projects) :
    Len(getProjectTasks(data, p.id, Null)) = Len(SEO_TASK_TEMPLATES)

\* the projects of the local blob
LocalProjects(entry) == Range(loadLocal(entry).projects)

\* the step taken is the return of the loadCloud() that the identity effect issued
SignInCompletes == \E i \in 1..Len(calls) : Returns(i, "loadCloud") /\ user' # NoUser

\* C3: the projects of the guest stay in local storage while an account is signed in
\* (the blob is not written), once the fetch issued at sign-in has resolved (with
\* success or with failure) the snapshot holds none of them, and the sign-out makes the
\* snapshot the content of the blob again
C3_ModeSwitchIsolation ==
  [][/\ user # NoUser => local' = local
     /\ SignInCompletes => Range(data'.projects) \cap LocalProjects(local') = {}
     /\ (user # NoUser /\ user' = NoUser) => data' = loadLocal(local')]_vars

\* C5: no state stores the new status of a task (in seo_tasks, or in the local blob)
\* without the history entry of that status change being stored too
C5_HistoryBeforeStatus ==
  /\ \A t \in remote.tasks :
       t.status # "not-started" =>
         \E h \in remote.history : h.task_id = t.id /\ h.new_status = t.status
  /\ \A t \in Range(loadLocal(local).tasks) :
       t.status # "not-started" =>
         \E h \in Range(loadLocal(local).history) :
           h.taskId = t.id /\ h.newStatus = t.status

\* the update changes the status and gives a title
RetitlesWithStatus(task, updates) ==
  AsksOtherStatus(task, updates) /\ "title" \in DOMAIN updates

\* guest mode: the appended entry has the title and the category the task had, the task
\* has the new title
C6Guest ==
  GuestUpdates =>
    \A task \in Find(data.tasks, last'.args[1]) :
      RetitlesWithStatus(task, last'.args[2]) =>
        /\ LET e == data'.history[Len(data'.history)]
           IN /\ e.taskId = task.id
              /\ e.taskTitle = task.title
              /\ e.category = task.category
        /\ \A t \in Find(data'.tasks, task.id) : t.title = last'.args[2].title

\* cloud mode: when the clean call returns, the snapshot has the entry with the title
\* and the category the task had, and the task has the new title
C6Cloud ==
  \A i \in 1..Len(calls) :
    (/\ Returns(i, "updateTask")
     /\ calls[i].clean
     /\ RetitlesWithStatus(calls[i].task, calls[i].updates)) =>
      /\ \E e \in Range(data'.history) :
           /\ e.taskId = calls[i].taskId
           /\ e.taskTitle = calls[i].task.title
           /\ e.category = calls[i].task.category
           /\ e.newStatus = calls[i].updates.status
      /\ \A t \in Find(data'.tasks, calls[i].taskId) : t.title = calls[i].updates.title

\* C6: when updateTask changes both the status and the title of a task, the history
\* entry it appends carries the title and the category the task had before, and after
\* the call the task carries the new title, in guest mode and in cloud mode
C6_TitleBeforeAndAfter == [][C6Guest /\ C6Cloud]_vars

\* every task of d is of a project of d, every history entry of d of a task of d
NoOrphans(d) ==
  /\ \A t \in Range(d.tasks) : t.projectId \in ProjectIds(d)
  /\ \A h \in Range(d.history) : h.taskId \in TaskIds(d)

\* every row of seo_tasks is of a row of seo_projects, every row of task_history of a
\* row of seo_tasks
NoOrphanRows ==
  /\ \A t \in remote.tasks : \E p \in remote.projects : p.id = t.project_id
  /\ \A h \in remote.history : \E t \in remote.tasks : t.id = h.task_id

\* d has neither the project nor a task of it
Gone(d, projectId) ==
  projectId \notin ProjectIds(d) /\ getProjectTasks(d, projectId, Null) = <<>>

\* after deleteProject(P), in guest mode and (for a clean call) in cloud mode, neither
\* the snapshot nor the backing store has P or a task of P
C8Deleted ==
  /\ (last'.op = "deleteProject" /\ last'.step = "guest") =>
       Gone(data', last'.args[1]) /\ Gone(loadLocal(local'), last'.args[1])
  /\ \A i \in 1..Len(calls) :
       (Returns(i, "deleteProject") /\ calls[i].clean) =>
         /\ Gone(data', calls[i].projectId)
         /\ \A p \in remote'.projects : p.id # calls[i].projectId
         /\ \A t \in remote'.tasks : t.project_id # calls[i].projectId

\* C8: after deleteProject(P) the snapshot and the backing store hold no project P and
\* no task of P, and in every reachable state every task (of the snapshot, of the local
\* blob, of seo_tasks) is of an existing project and every history entry of an
\* existing task, so that no history entry of a task of P is left either
C8_CascadeAndNoOrphans ==
  /\ [](NoOrphans(data) /\ NoOrphans(loadLocal(local)) /\ NoOrphanRows)
  /\ [][C8Deleted]_vars

\* C10: in cloud mode, when createProject returns after its project insert succeeded
\* and its task insert failed (the project's row is there, no task row of it is), it
\* returns the empty string, and the project's row is not rolled back
C10_EmptyIdWhenSeedingFails ==
  [][\A i \in 1..Len(calls) :
       (/\ Returns(i, "createProject")
        /\ calls[i].pc = "apply"
        /\ \E p \in remote.projects : p.id = calls[i].newProject.id
        /\ \A t \in remote.tasks : t.project_id # calls[i].newProject.id)
       => /\ last'.ret = ""
          /\ \E p \in remote'.projects : p.id = calls[i].newProject.id]_vars

\* the step taken is a sign-in from guest mode
SignsIn == user = NoUser /\ user' # NoUser

\* the projects, tasks and history entries that are in the local blob
LocalEntries(entry) ==
  Range(loadLocal(entry).projects) \cup Range(loadLocal(entry).tasks)
    \cup Range(loadLocal(entry).history)

\* the projects, tasks and history entries of the snapshot
Entries(d) == Range(d.projects) \cup Range(d.tasks) \cup Range(d.history)

\* a loadCloud() for u is the call issued last
FetchIssuedFor(u) ==
  /\ Len(calls') = Len(calls) + 1
  /\ calls'[Len(calls')].op = "loadCloud"
  /\ calls'[Len(calls')].pc = "fetch"
  /\ calls'[Len(calls')].user = u

\* C11: on the sign-in from guest mode the snapshot is cleared to empty and a full
\* remote fetch is issued, and while an identity is signed in (Loading or Cloud) the
\* snapshot holds no project, task or history entry of the guest
C11_ClearedOnSignIn ==
  /\ [][SignsIn => (data' = EmptyStore /\ FetchIssuedFor(user'))]_vars
  /\ [](user # NoUser => Entries(data) \cap LocalEntries(local) = {})

\* C12: when the fetch of a loadCloud() resolves, with success or with failure, loading
\* becomes false and no further fetch is issued in its place (the call is over); and,
\* every fetch resolving eventually, loading is eventually false
C12_LeavesLoading ==
  /\ [][\A i \in 1..Len(calls) :
          (Acts(i) /\ calls[i].pc = "apply") => (~loading' /\ calls' = Drop(i))]_vars
  /\ (loading ~> ~loading)

\* the fetch issued for the signed-in identity has failed and the store has left Loading
C12_FailedFetchResolved ==
  /\ last.op = "loadCloud"
  /\ last.step = "apply"
  /\ ~last.clean
  /\ user # NoUser
  /\ ~loading

SignsOut == user # NoUser /\ user' = NoUser

\* the ids of the rows that the relations hold
RowIds(db) == {r.id : r \in db.projects \cup db.tasks \cup db.history}

\* C13: the sign-out makes the snapshot the content of the local blob of that moment
\* (which is left as it is) and loading false, and no project, task or history entry
\* that the abandoned snapshot showed from the relations is in the new snapshot
C13_SignOutRestoresLocal ==
  [][SignsOut => /\ data' = loadLocal(local)
                 /\ local' = local
                 /\ ~loading'
                 /\ \A e \in Entries(data) \cap Entries(data') : e.id \notin RowIds(remote)]_vars

SwitchesAccount == user # NoUser /\ user' # NoUser /\ user' # user

Refreshes == last'.op = "userChanged" /\ last'.step = "refresh"

\* C14: when the identity changes from one user id to another one, loading becomes
\* true and a loadCloud() is issued for the new identity; an identity signal with the
\* same user id issues no fetch (and leaves loading and the snapshot as they are)
C14_SwitchReloads ==
  [][/\ SwitchesAccount => (loading' /\ FetchIssuedFor(user'))
     /\ Refreshes => (calls' = calls /\ loading' = loading /\ data' = data)]_vars

\* the second account has just taken over from the first one, whose project the
\* snapshot shows: the store is loading and the fetch for the second account is pending
C14_SecondAccountLoading ==
  /\ last.op = "userChanged"
  /\ last.step = "effect"
  /\ user = "u2"
  /\ loading
  /\ \E i \in 1..Len(calls) : calls[i].op = "loadCloud" /\ calls[i].user = "u2"
  /\ data.projects # <<>>
  /\ \A p \in Range(data.projects) : \E r \in remote.projects : r.id = p.id /\ r.user_id = "u1"

\* call i is a store operation that was called in cloud mode
CloudCall(i) == calls[i].op \in StoreOps /\ calls[i].user # NoUser

\* call i returns to its caller in this step
ReturnsNow(i) == Acts(i) /\ calls' = Drop(i)

\* call i gets to the await of its selects in this step
StartsFetch(i) ==
  /\ Acts(i)
  /\ Len(calls') = Len(calls)
  /\ calls[i].pc # "fetch"
  /\ calls'[i].pc = "fetch"

\* a call is made in this step that starts with the selects
CalledToFetch ==
  /\ Len(calls') = Len(calls) + 1
  /\ calls'[Len(calls')].pc = "fetch"

UpdatesAbsentTask ==
  /\ last'.op = "updateTask"
  /\ last'.step = "absent"
  /\ last'.args[1] \notin TaskIds(data)

\* C16: updateTask for a task id that is not in the snapshot leaves the snapshot, the
\* local blob and the relations (history included) as they are, and makes no call
C16_AbsentTaskNoOp ==
  [][UpdatesAbsentTask => /\ data' = data
                          /\ local' = local
                          /\ remote' = remote
                          /\ calls' = calls
                          /\ loading' = loading]_vars

\* updateTask has been called for an absent id while the snapshot holds tasks
C16_AbsentAmongTasks ==
  /\ last.op = "updateTask"
  /\ last.step = "absent"
  /\ data.tasks # <<>>
  /\ last.args[1] \notin TaskIds(data)

\* task new has the fields that the partial task u supplies
Supplied(new, u) == \A f \in DOMAIN u : f \in DOMAIN new /\ new[f] = u[f]

\* task new has the fields that u omits as task old has them; the completion date may
\* be another one when u makes the task done
Kept(old, new, u) ==
  \A f \in DOMAIN old \ DOMAIN u :
    /\ f \in DOMAIN new
    /\ \/ new[f] = old[f]
       \/ f = "completionDate" /\ "status" \in DOMAIN u /\ u.status = "done"

\* guest mode: the task of the update is merged, the other tasks and the projects are
\* as they were
C17Guest ==
  GuestUpdates =>
    /\ Len(data'.tasks) = Len(data.tasks)
    /\ \A k \in 1..Len(data.tasks) :
         IF data.tasks[k].id = last'.args[1]
           THEN /\ Supplied(data'.tasks[k], last'.args[2])
                /\ Kept(data.tasks[k], data'.tasks[k], last'.args[2])
           ELSE data'.tasks[k] = data.tasks[k]
    /\ data'.projects = data.projects

\* cloud mode: every step of updateTask leaves the rows of the projects and of the other
\* tasks as they were, and the columns of its task that the update omits
C17CloudRows ==
  \A i \in 1..Len(calls) :
    (Acts(i) /\ calls[i].op = "updateTask") =>
      /\ remote'.projects = remote.projects
      /\ \A r \in remote.tasks :
           IF r.id = calls[i].taskId
             THEN \E q \in remote'.tasks :
                    /\ q.id = r.id
                    /\ Kept(TaskOfRow(r), TaskOfRow(q), calls[i].updates)
             ELSE r \in remote'.tasks
      /\ Cardinality(remote'.tasks) = Cardinality(remote.tasks)

\* call i is for a task that the account of the call has a row of
OfOwnRow(i) == \E r \in Visible(remote.tasks, calls[i].user) : r.id = calls[i].taskId

\* cloud mode: when the clean call for a task of the account returns, the snapshot shows
\* the task with the fields that the update supplies
C17CloudShown ==
  \A i \in 1..Len(calls) :
    (Returns(i, "updateTask") /\ calls[i].clean /\ OfOwnRow(i)) =>
      \E t \in Find(data'.tasks, calls[i].taskId) : Supplied(t, calls[i].updates)

\* C17: updateTask sets, on its task, the fields that the partial task supplies (and the
\* completion date when it stamps it) and leaves the task's other fields, the other
\* tasks and the projects as they were, in guest mode and in cloud mode
C17_ExactlySuppliedFields == [][C17Guest /\ C17CloudRows /\ C17CloudShown]_vars

\* record r without the fields fs
Strip(r, fs) == [f \in DOMAIN r \ fs |-> r[f]]

\* snapshot d without the generated identifiers (and the references made of them), the
\* timestamps and the actor label; of the completion date it is kept whether it is set
Unlabelled(d) ==
  [projects |-> [k \in 1..Len(d.projects) |-> Strip(d.projects[k], {"id", "createdAt"})],
   tasks |-> [k \in 1..Len(d.tasks) |->
                Spread(Strip(d.tasks[k], {"id", "projectId", "createdAt", "completionDate"}),
                       [completed |-> HasDate(d.tasks[k])])],
   history |-> [k \in 1..Len(d.history) |->
                  Strip(d.history[k], {"id", "taskId", "changeDate", "changedBy"})]]

\* what the guest branch of the operation of call c makes of snapshot d
GuestResult(d, c) ==
  CASE c.op = "createProject" -> WithNewProject(d, c.project, 0)
    [] c.op = "updateTask" -> GuestUpdated(d, c.task, c.taskId, c.updates, 0)
    [] c.op = "deleteProject" -> GuestDeleted(d, c.projectId)
    [] c.op = "deleteAttachment" -> WithAttachments(d, c.taskId, c.dbUpdates.attachments)

\* call i is one of the core operations and returns in this step after a run in which
\* no request has failed and no other load is under way, the snapshot being the one the
\* operation was called on
ReturnsUndisturbed(i) ==
  /\ ReturnsNow(i)
  /\ CloudCall(i)
  /\ calls[i].op \in StoreOps \ {"uploadAttachment"}
  /\ calls[i].pc = "apply"
  /\ calls[i].clean
  /\ failures = 0
  /\ Pending({"loadCloud"}) = 0
  /\ calls[i].op = "createProject" => calls[i].newProject.id \notin ProjectIds(data)
  /\ calls[i].op = "updateTask" => calls[i].task \in Range(data.tasks)

\* C18: a core operation (createProject, updateTask, deleteAttachment, deleteProject)
\* called in cloud mode on a snapshot leaves, when nothing fails, the snapshot that its
\* guest branch makes of the same snapshot, up to the generated identifiers, the
\* timestamps and the actor label
C18_SameInBothModes ==
  [][\A i \in 1..Len(calls) :
       ReturnsUndisturbed(i) => Unlabelled(data') = Unlabelled(GuestResult(data, calls[i]))]_vars

\* the score of a project has been read
ScoreRead == last.op = "getProjectScore" /\ last.step = "read"

\* the tasks of the project whose score has been read, and the done ones among them
ScoredTasks == {t \in Range(data.tasks) : t.projectId = last.args[1]}
DoneTasks == {t \in ScoredTasks : t.status = "done"}

\* C19: the score that getProjectScore returns is an integer from 0 to 100; it is 100
\* when the project has tasks and all of them are done, and 0 when none of its tasks is
\* done
C19_ScoreInRange ==
  ScoreRead =>
    /\ last.ret \in 0..100
    /\ (ScoredTasks # {} /\ DoneTasks = ScoredTasks) => last.ret = 100
    /\ DoneTasks = {} => last.ret = 0

\* the score of a project with done tasks only, of more than one impact, has been read
C19_AllDoneScored ==
  /\ ScoreRead
  /\ DoneTasks = ScoredTasks
  /\ Cardinality({t.expectedImpact : t \in ScoredTasks}) > 1
  /\ last.ret = 100

\* the sum of the weights of the tasks ts (high 3, medium 2, low 1)
WeightOf(ts) ==
  3 * Cardinality({t \in ts : t.expectedImpact = "high"})
    + 2 * Cardinality({t \in ts : t.expectedImpact = "medium"})
    + Cardinality({t \in ts : t.expectedImpact = "low"})

\* C20: the score is 100 * D / T rounded to the nearest integer, halves up, with T the
\* weight of the tasks of the project and D the weight of its done tasks, and it is 0
\* for a project without tasks
C20_RoundedHalfUp ==
  ScoreRead =>
    last.ret = IF ScoredTasks = {} THEN 0
               ELSE (200 * WeightOf(DoneTasks) + WeightOf(ScoredTasks))
                      \div (2 * WeightOf(ScoredTasks))

\* the buckets of the statistics add up to the total
AddsUp(stats) ==
  stats.total = stats.done + stats.inProgress + stats.notStarted + stats.skipped

\* C21: for every project of the snapshot, the total that getStats returns is the sum of
\* its four buckets (done, in progress, not started, skipped), and is the number of the
\* tasks of the project
C21_StatsAddUp ==
  \A p \in Range(data.projects) :
    /\ AddsUp(getStats(data, p.id))
    /\ getStats(data, p.id).total = Cardinality({k \in 1..Len(data.tasks) : data.tasks[k].projectId = p.id})

\* a project of the snapshot has a skipped task and a task that is not skipped
C21_MixedStatuses ==
  \E p \in Range(data.projects) :
    /\ getStats(data, p.id).skipped > 0
    /\ getStats(data, p.id).skipped < getStats(data, p.id).total

\* the step taken is deleteAttachment(taskId, url) in guest mode
GuestDeletesAttachment == last'.op = "deleteAttachment" /\ last'.step = "guest"

\* the step before was the return of a guest uploadAttachment with the reference url,
\* which is the last one of the list of the task
JustUploaded(task, url) ==
  /\ last.op = "uploadAttachment"
  /\ last.step = "reading"
  /\ url.kind = "data"
  /\ last.ret = url.body
  /\ task.attachments # <<>>
  /\ task.attachments[Len(task.attachments)] = url

\* C22: deleteAttachment of the reference that the uploadAttachment just before it
\* returned leaves the list of the task as long as it was before the upload, which is one
\* shorter than the upload left it, whatever the list held
C22_UploadThenDelete ==
  [][GuestDeletesAttachment =>
       \A task \in Find(data.tasks, last'.args[1]) :
         JustUploaded(task, last'.args[2]) =>
           \A t \in Find(data'.tasks, task.id) :
             Len(t.attachments) = Len(task.attachments) - 1]_vars

\* a call of deleteAttachment is made in this step
CallsDeleteAttachment ==
  /\ last'.op = "deleteAttachment"
  /\ last'.step = "call"
  /\ Len(calls') = Len(calls) + 1

\* call i is a deleteAttachment that gets the answer of the bucket in this step
RemoveAnswered(i) == Acts(i) /\ calls[i].op = "deleteAttachment" /\ calls[i].pc = "remove"

\* call i is a deleteAttachment whose update of the row is accepted in this step
ListUpdated(i) ==
  /\ Acts(i)
  /\ calls[i].op = "deleteAttachment"
  /\ calls[i].pc = "updateRow"
  /\ failures' = failures
  /\ user = calls[i].user

\* C23: deleteAttachment in cloud mode asks the bucket to remove the object only for a
\* reference of the bucket; whatever the bucket answers, the update of the row is sent
\* next with the list without the reference; and the update, once accepted, leaves the
\* row of the task without the reference
C23_ListEntryRemoved ==
  [][/\ CallsDeleteAttachment =>
          LET c == calls'[Len(calls')]
          IN /\ c.pc = "remove" <=> c.url.kind = "storage"
             /\ c.pc \in {"remove", "updateRow"}
             /\ c.url \notin Range(c.dbUpdates.attachments)
     /\ \A i \in 1..Len(calls) :
          /\ RemoveAnswered(i) =>
               /\ Len(calls') = Len(calls)
               /\ calls'[i].pc = "updateRow"
               /\ calls'[i].dbUpdates = calls[i].dbUpdates
          /\ ListUpdated(i) =>
               \A r \in Visible(remote'.tasks, user) :
                 r.id = calls[i].taskId => calls[i].url \notin Range(r.attachments)]_vars

\* deleteAttachment has returned after the bucket failed to remove the object: the object
\* is still stored, and neither the row nor the snapshot has the reference in the list
C23_DanglingObjectOnly ==
  /\ last.op = "deleteAttachment"
  /\ last.step = "apply"
  /\ failures = 1
  /\ user # NoUser
  /\ remote.objects # {}
  /\ data.tasks # <<>>
  /\ \A o \in remote.objects :
       /\ \A r \in remote.tasks : PublicUrl(o.name) \notin Range(r.attachments)
       /\ \A t \in Range(data.tasks) : PublicUrl(o.name) \notin Range(t.attachments)

\* call i is an uploadAttachment whose upload (cloud) or file read (guest) fails in this
\* step
UploadFails(i) ==
  /\ Acts(i)
  /\ calls[i].op = "uploadAttachment"
  /\ calls[i].pc \in {"upload", "reading"}
  /\ failures' = failures + 1

\* C24: when the upload of the object (cloud mode) or the read of the file (guest mode)
\* fails, uploadAttachment returns null to its caller, and the snapshot, the local blob
\* and the rows of the tasks are as they were
C24_NullOnFailedUpload ==
  [][\A i \in 1..Len(calls) :
       UploadFails(i) => /\ calls' = Drop(i)
                         /\ last'.ret = Null
                         /\ data' = data
                         /\ local' = local
                         /\ remote'.tasks = remote.tasks]_vars

\* value v has the three lists of a store
WellFormedStore(v) == {"projects", "tasks", "history"} \subseteq DOMAIN v

\* C25: whatever the local storage holds under the key, loadLocal returns a value with
\* the three lists (the empty store when the key is missing, is not JSON, or is JSON of
\* another shape), and so the snapshot of a guest, which is what loadLocal returned at
\* the mount or at the sign-out, has the three lists
C25_LoadLocalWellFormed ==
  /\ WellFormedStore(loadLocal(local))
  /\ (user = NoUser /\ last.op \in {"mount", "userChanged"}) => WellFormedStore(data)

\* the selects of call i are answered in this step, at least one of them with an error
\* (or the awaited promise rejects)
FetchFails(i) == Acts(i) /\ calls[i].pc = "fetch" /\ failures' > failures

\* C26: in cloud mode a fetch of which any one select has failed is a failed fetch as a
\* whole (what it fetched is not applied), and a failed fetch leaves the snapshot as it
\* is: the snapshot is never replaced by a mix of fetched relations and an emptied one
C26_FailedFetchKeepsSnapshot ==
  [][\A i \in 1..Len(calls) :
       /\ FetchFails(i) => calls'[i].thrown
       /\ (Acts(i) /\ calls[i].pc = "apply" /\ calls[i].thrown) => data' = data]_vars

Relations == {"projects", "tasks", "history"}

\* the rows of relation rel that the step made, changed, or removed
Written(rel) == (remote[rel] \ remote'[rel]) \cup (remote'[rel] \ remote[rel])

\* the ids of the projects, tasks and history entries that the selects answered
FetchedIds(v) ==
  {v.projects[k].id : k \in 1..Len(v.projects)}
    \cup {v.tasks[k].id : k \in 1..Len(v.tasks)}
    \cup {v.history[k].id : k \in 1..Len(v.history)}

OwnIds(s) == {r.id : r \in Visible(remote.projects \cup remote.tasks \cup remote.history, s)}

\* C27: every row of seo_projects, seo_tasks and task_history that a request inserts,
\* updates or deletes is a row whose owner is the identity of the session that the
\* request is made under, and the selects answer rows of that identity only
C27_OwnRowsOnly ==
  [][/\ \A rel \in Relations : \A r \in Written(rel) : r.user_id = user
     /\ \A i \in 1..Len(calls) :
          (Acts(i) /\ calls[i].pc = "fetch") => FetchedIds(calls'[i].fetched) \subseteq OwnIds(user)]_vars

\* the history entries that the local blob holds
StoredHistory(entry) == Range(loadLocal(entry).history)

\* C28: a step of any store operation other than deleteProject (and of the loads and the
\* identity changes) leaves every history entry of the backing store, the rows of
\* task_history and the entries of the local blob, in place with all its fields
C28_HistoryAppendOnly ==
  [][last'.op # "deleteProject" =>
       /\ remote.history \subseteq remote'.history
       /\ StoredHistory(local) \subseteq StoredHistory(local')]_vars

\* the step is a store operation of a guest that has written: one of the synchronous
\* guest branches, or the file read of uploadAttachment handing over the reference
GuestMutation ==
  /\ user = NoUser
  /\ last'.op \in StoreOps
  /\ \/ last'.step = "guest"
     \/ last'.step = "reading" /\ last'.ret # "pending"

\* C29: in guest mode, the step of a mutating store operation leaves the local blob
\* holding the whole snapshot that the step leaves (projects, tasks and history)
C29_BlobIsSnapshot ==
  [][GuestMutation => /\ local' = saveLocal(data')
                      /\ loadLocal(local') = data']_vars

\* a guest has changed the status of a task: the snapshot and the blob hold the project,
\* its tasks and the history entry
C29_UpdateSaved ==
  /\ user = NoUser
  /\ last.op = "updateTask"
  /\ last.step = "guest"
  /\ data.projects # <<>>
  /\ data.history # <<>>
  /\ loadLocal(local) = data

\* the entries of list s that satisfy keep, by their places in s
Places(s, keep(_)) == {k \in 1..Len(s) : keep(s[k])}

\* list r holds the entries of s at the places ks, each one once
HoldsExactly(r, s, ks) ==
  /\ Len(r) = Cardinality(ks)
  /\ \A k \in ks : \E j \in 1..Len(r) : r[j] = s[k]

\* the task with id taskId is a task of project projectId
TaskOf(taskId, projectId) ==
  \E t \in Range(data.tasks) : t.id = taskId /\ t.projectId = projectId

\* what the view that was read has to be
C30HistoryView ==
  (last.op = "getProjectHistory" /\ last.step = "read") =>
    LET OfProject(h) == TaskOf(h.taskId, last.args[1])
    IN /\ HoldsExactly(last.ret, data.history, Places(data.history, OfProject))
       /\ \A i, j \in 1..Len(last.ret) :
            i < j => last.ret[i].changeDate >= last.ret[j].changeDate

C30TasksView ==
  (last.op = "getProjectTasks" /\ last.step = "read") =>
    LET Wanted(t) == /\ t.projectId = last.args[1]
                     /\ last.args[2] # Null => t.category = last.args[2]
    IN HoldsExactly(last.ret, data.tasks, Places(data.tasks, Wanted))

\* C30: getProjectHistory(P) returns exactly the history entries of the snapshot whose
\* task is a task of P, from the newest change to the oldest, getProjectTasks(P, c)
\* returns exactly the tasks of P (of category c when c is given), and reading them
\* changes neither the snapshot nor the local blob nor the relations
C30_ViewsOfSnapshot ==
  /\ [](C30HistoryView /\ C30TasksView)
  /\ [][last'.step = "read" => (data' = data /\ local' = local /\ remote' = remote)]_vars

\* the history of a project has been read from a snapshot that stores an older entry of
\* the project before a newer one, and an entry of the other project
C30_ReorderedHistory ==
  /\ last.op = "getProjectHistory"
  /\ last.step = "read"
  /\ Len(last.ret) = 2
  /\ Len(data.history) = 3
  /\ last.ret[1].changeDate > last.ret[2].changeDate
  /\ \E i, j \in 1..3 : i < j /\ data.history[i] = last.ret[2] /\ data.history[j] = last.ret[1]

\* C31: in guest mode the snapshot is what was loaded from the local blob or written to
\* it last, whenever the answer to a loadCloud() that was issued under a signed-in
\* identity arrives
C31_GuestSnapshotIsLocal == user = NoUser => data = loadLocal(local)

\* C32: the local blob holds no project, task or history entry that is a row of the
\* relations, whatever the order of the operations, the file reads, the sign-ins and
\* the sign-outs
C32_NoCloudDataInBlob == \A e \in LocalEntries(local) : e.id \notin RowIds(remote)

\* the owners of the rows that entry e of a snapshot shows
OwnersOf(e) ==
  {r.user_id : r \in {r \in remote.projects \cup remote.tasks \cup remote.history : r.id = e.id}}

\* C33: in cloud mode with loading false, every project, task and history entry of the
\* snapshot that is a row of the relations is a row of the identity that is signed in
C33_OnlyOwnDataShown ==
  (user # NoUser /\ ~loading) => \A e \in Entries(data) : OwnersOf(e) \subseteq {user}

\* the loadCloud() that the identity effect issued for the signed-in identity has not
\* resolved yet
OwnLoadOutstanding ==
  \E i \in 1..Len(calls) : calls[i].op = "loadCloud" /\ calls[i].user = user

\* C34: loading is true for as long as the fetch that the change of the identity issued
\* for the signed-in identity is outstanding; the resolution of another fetch does not
\* set it to false in between
C34_LoadingUntilOwnFetch == (user # NoUser /\ OwnLoadOutstanding) => loading

\* the history rows of task id, and those of them that are older than row h
RowsOf(id) == {h \in remote.history : h.task_id = id}
Before(h) == {g \in RowsOf(h.task_id) : g.change_date < h.change_date}

\* row g is the entry of the task just before row h
JustBefore(g, h) == g \in Before(h) /\ \A f \in Before(h) : f.change_date <= g.change_date

\* C35: an appended history entry has as its old status the status that the task has in
\* the store just before (cloud: the row of seo_tasks; guest: the task of the snapshot),
\* and of two consecutive entries of one task the earlier one's new status is the later
\* one's old status, also when calls of updateTask overlap
C35_HistoryFollowsStatus ==
  /\ [][/\ \A h \in remote'.history \ remote.history :
             \A t \in remote.tasks : t.id = h.task_id => h.old_status = t.status
        /\ GuestUpdates =>
             \A k \in (Len(data.history) + 1)..Len(data'.history) :
               \A t \in Find(data.tasks, data'.history[k].taskId) :
                 data'.history[k].oldStatus = t.status]_vars
  /\ [](\A h \in remote.history : \A g \in remote.history :
          JustBefore(g, h) => g.new_status = h.old_status)

\* the references of the bucket that the rows of the tasks list
ListedObjects ==
  {a.body : a \in {a \in UNION {Range(r.attachments) : r \in remote.tasks} : a.kind = "storage"}}

\* C36: once the attachment operations that were under way on a task have all returned
\* (no request having failed), the list of the task holds the reference of every object
\* that was uploaded and not deleted, and of no object that was deleted
C36_NoLostAttachment ==
  (user # NoUser /\ Pending(StoreOps) = 0 /\ failures = 0) =>
    ListedObjects = {o.name : o \in remote.objects}

\* the tasks that the local blob holds
StoredTasks(entry) == Range(loadLocal(entry).tasks)

\* the step is createProject or deleteProject of a guest
GuestCreatesOrDeletes == last'.step = "guest" /\ last'.op \in {"createProject", "deleteProject"}

\* C37: createProject and deleteProject of a guest leave every task of the local blob
\* (other than the tasks of the deleted project) as the blob holds it, so that a task
\* update saved through another instance of the store is still there afterwards
C37_UpdateOfOtherInstanceKept ==
  [][GuestCreatesOrDeletes =>
       \A t \in StoredTasks(local) :
         (last'.op = "createProject" \/ t.projectId # last'.args[1])
           => t \in StoredTasks(local')]_vars

\* the status that the history rows of task id say the task has: the new status of the
\* latest entry, and the status of a new task when there is none
RecordedStatus(id) ==
  IF RowsOf(id) = {} THEN {"not-started"}
  ELSE {h.new_status : h \in {h \in RowsOf(id) : \A g \in RowsOf(id) : g.change_date <= h.change_date}}

\* C38: in cloud mode, when no updateTask is under way, the status of every row of
\* seo_tasks is the one that its history says: no history entry whose new status was not
\* applied to the task, and no status change without its history entry
C38_HistoryAndStatusTogether ==
  Pending({"updateTask"}) = 0 => \A t \in remote.tasks : t.status \in RecordedStatus(t.id)

\* the weight of a project of 40 tasks of high impact
MaxWeight == 120

\* the rounding over every done weight c of every total weight t up to MaxWeight
RoundingKeepsEnds ==
  \A t \in 1..MaxWeight : \A c \in 0..t :
    /\ MathRoundPercent(c, t) = 100 => c = t
    /\ MathRoundPercent(c, t) = 0 => c = 0

====
